---- MODULE Spec2Model ----
(* A model of the neurcode watch daemon: the Blob Store, the Journal, the      *)
(* Restorer, the Sentinel (watcher) and the CommandPoller, with the asynchronous *)
(* steps of each handler (every await is a point where other callbacks run).   *)
EXTENDS Naturals, Sequences, FiniteSets, TLC

(***************************************************************************)
(* Bounds of the model.                                                    *)
(***************************************************************************)
\* filesystem mutations the environment performs
MaxFsOps == 2
\* process restarts (a new Sentinel, hence a new Journal, over the same directory)
MaxRestarts == 1
\* events the journal-only specification records
MaxEvents == 3
\* polls answered with a command
MaxPolls == 1

(***************************************************************************)
(* Strings are sequences of one-character strings, so that a prefix test   *)
(* is a test on characters, as String.prototype.startsWith is.             *)
(***************************************************************************)
IsPrefix(s, t) == Len(s) <= Len(t) /\ SubSeq(t, 1, Len(s)) = s

RECURSIVE SplitAcc(_, _, _)
SplitAcc(s, cur, acc) ==
  IF s = <<>> THEN Append(acc, cur)
  ELSE IF Head(s) = "/" THEN SplitAcc(Tail(s), <<>>, Append(acc, cur))
  ELSE SplitAcc(Tail(s), Append(cur, Head(s)), acc)

\* the segments of a path string, empty segments included
Split(s) == SplitAcc(s, <<>>, <<>>)

RECURSIVE Normalize(_, _)
\* path normalisation over segments: "" and "." are dropped, ".." pops (never above /)
Normalize(segs, acc) ==
  IF segs = <<>> THEN acc
  ELSE LET g == Head(segs) IN
       IF g = <<>> \/ g = <<".">> THEN Normalize(Tail(segs), acc)
       ELSE IF g = <<".", ".">>
            THEN Normalize(Tail(segs), IF acc = <<>> THEN acc ELSE SubSeq(acc, 1, Len(acc) - 1))
            ELSE Normalize(Tail(segs), Append(acc, g))

RECURSIVE JoinAbs(_)
\* the absolute path string of a list of segments: "/" for none
JoinAbs(segs) ==
  IF segs = <<>> THEN <<>>
  ELSE <<"/">> \o Head(segs) \o JoinAbs(Tail(segs))

AbsString(segs) == IF segs = <<>> THEN <<"/">> ELSE JoinAbs(segs)

IsAbsolute(s) == s # <<>> /\ Head(s) = "/"

\* path.resolve(from, to): `to` alone when absolute, else `to` applied to `from`
PathResolve(from, to) ==
  IF IsAbsolute(to) THEN AbsString(Normalize(Split(to), <<>>))
  ELSE AbsString(Normalize(Split(from) \o Split(to), <<>>))

\* path.join(a, b): concatenation with a separator, then normalisation
PathJoin(a, b) == AbsString(Normalize(Split(a) \o Split(b), <<>>))

\* path.relative(from, to) for `to` below `from` (the watcher only reports such paths)
PathRelative(from, to) == SubSeq(to, Len(from) + 2, Len(to))

\* process.cwd() of the daemon
ProjectRoot == <<"/", "p">>

\* the real containment: the root itself or a descendant of it
InsideRoot(abs) == abs = ProjectRoot \/ IsPrefix(ProjectRoot \o <<"/">>, abs)

(***************************************************************************)
(* Contents. A file holds bytes; the daemon reads and writes text.         *)
(* A byte unit is the encoding of one character: "68" (h), "77" (w),       *)
(* "efbfbd" (U+FFFD), or "ff", a byte that is no UTF-8.                    *)
(***************************************************************************)
FileBytes == {<<"68">>, <<"77">>, <<"ff">>}

\* buffer.toString('utf-8') / readFile(path, 'utf-8'): invalid bytes become U+FFFD
DecodeUnit(u) ==
  CASE u = "68" -> "h"
    [] u = "77" -> "w"
    [] OTHER -> "U+FFFD"
Utf8Decode(bytes) == [i \in 1..Len(bytes) |-> DecodeUnit(bytes[i])]

\* Buffer.from(text, 'utf8') / writeFile(path, text, 'utf-8')
EncodeUnit(c) ==
  CASE c = "h" -> "68"
    [] c = "w" -> "77"
    [] OTHER -> "efbfbd"
Utf8Encode(text) == [i \in 1..Len(text) |-> EncodeUnit(text[i])]

\* createHash('sha256').update(text, 'utf8').digest('hex'): a function of the encoded bytes
Sha256(bytes) == <<"sha256", bytes>>
HashOfText(text) == Sha256(Utf8Encode(text))

\* gzipSync / gunzipSync: a gzip member wraps its payload; anything else does not inflate
Gzip(bytes) == <<"gz", bytes>>
Truncated == <<"gz-partial">>
CanGunzip(blob) == Len(blob) = 2 /\ blob[1] = "gz"
Gunzip(blob) == blob[2]

\* Buffer.toString('base64') / Buffer.from(s, 'base64')
Base64Encode(buf) == <<"b64", buf>>
Base64Decode(s) == s[2]

Null == <<"null">>

(***************************************************************************)
(* State.                                                                  *)
(***************************************************************************)
VARIABLES
  files,          \* the filesystem outside .neurcode: absolute path -> bytes
  blobs,          \* .neurcode/blobs: hash -> the object's bytes
  jfile,          \* .neurcode/history.json: [sessions, events]
  jdb,            \* Journal.db: lowdb's in-memory copy of the file
  nextEventId,    \* Journal.nextEventId
  sessionId,      \* Sentinel.sessionId
  pendingChanges, \* Sentinel.pendingChanges, in Map insertion order
  debounceTimer,  \* Sentinel.debounceTimer is armed
  runs,           \* processPendingChanges invocations in progress
  apiKey,         \* Syncer.apiKey / CommandPoller.apiKey
  syncQueue,      \* Syncer.syncQueue
  syncTimer,      \* Syncer.syncTimer is armed
  execs,          \* executeCommand invocations in progress
  reports,        \* the status reports sent, in order
  fsOps,          \* filesystem mutations so far
  restarts,       \* restarts so far
  polls,          \* commands handed out by the remote, direct restoreFile calls, so far
  uuids,          \* session ids handed out by uuidv4 so far
  poller,         \* CommandPoller: isRunning, pollInterval, the poll requests
  uploads,        \* Syncer.syncBatch invocations in progress
  resched,        \* the timers syncBatch armed for another sync (Syncer keeps no handle)
  shutdown,       \* the shutdown handler: its position, flush()'s results
  hist            \* history the properties refer to

vars == <<files, blobs, jfile, jdb, nextEventId, sessionId, pendingChanges,
          debounceTimer, runs, apiKey, syncQueue, syncTimer, execs, reports,
          fsOps, restarts, polls, uuids, poller, uploads, resched, shutdown, hist>>

journalVars == <<jfile, jdb, nextEventId, sessionId, uuids>>
watchVars == <<pendingChanges, debounceTimer, runs>>
syncVars == <<syncQueue, syncTimer>>
pollVars == <<execs, reports, polls>>
netVars == <<poller, uploads, resched, shutdown>>

(***************************************************************************)
(* Domains of the inputs.                                                  *)
(***************************************************************************)
\* the watched files, relative to the project root
WatchedRel == {<<"a">>, <<"b">>}

Remove(f, k) == [x \in DOMAIN f \ {k} |-> f[x]]
Put(f, k, v) == (k :> v) @@ f
RemoveAt(s, i) == SubSeq(s, 1, i - 1) \o SubSeq(s, i + 1, Len(s))

(***************************************************************************)
(* Journal (lowdb over .neurcode/history.json).                            *)
(***************************************************************************)
EmptyDb == [sessions |-> <<>>, events |-> <<>>]

\* history.json before the first start
NoFile == [k \in {} |-> <<>>]

\* db.defaults({sessions: [], events: []}): the keys the file lacks get the defaults
LowdbDefaults(file) ==
  [k \in {"sessions", "events"} |-> IF k \in DOMAIN file THEN file[k] ELSE EmptyDb[k]]

RECURSIVE MaxId(_)
\* Math.max(...events.map(e => e.id || 0))
MaxId(events) ==
  IF events = <<>> THEN 0
  ELSE LET m == MaxId(Tail(events)) IN
       IF Head(events).id > m THEN Head(events).id ELSE m

\* a mutant of the constructor: the counter is not recovered from the file
NextIdNoScan(events) == 1

\* Journal.constructor: the id the next event gets
NextIdAfter(events) == IF Len(events) > 0 THEN MaxId(events) + 1 ELSE 1

\* uuidv4(): an id never handed out before
NewUuid == <<"uuid", uuids + 1>>

\* a mutant of createSession: the sessions are replaced, not appended to
DbReplaceSession(db, sid) == [db EXCEPT !.sessions = <<[id |-> sid]>>]

\* Journal.createSession: db.get('sessions').push({id, startTime})
DbCreateSession(db, sid) == [db EXCEPT !.sessions = Append(@, [id |-> sid])]

\* Journal.recordEvent: db.get('events').push({id, sessionId, filePath, hash, timestamp})
DbRecordEvent(db, id, sid, path, hash) ==
  [db EXCEPT !.events = Append(@, [id |-> id, sessionId |-> sid,
                                   filePath |-> path, hash |-> hash])]

\* recordEvent on the live journal: push, write(), nextEventId++
\* a mutant of recordEvent: the event is pushed and history.json is not written
RecordEventUnwritten(sid, path, hash) ==
  /\ jdb' = DbRecordEvent(jdb, nextEventId, sid, path, hash)
  /\ nextEventId' = nextEventId + 1
  /\ UNCHANGED <<jfile, sessionId, uuids>>

RecordEvent(sid, path, hash) ==
  /\ jdb' = DbRecordEvent(jdb, nextEventId, sid, path, hash)
  /\ jfile' = jdb'
  /\ nextEventId' = nextEventId + 1
  /\ UNCHANGED <<sessionId, uuids>>

\* new Journal(projectRoot) followed by createSession(), as the Sentinel constructor runs them
OpenJournal ==
  LET db0 == LowdbDefaults(jfile)
      db1 == DbCreateSession(db0, NewUuid)
  IN /\ jdb' = db1
     /\ jfile' = db1
     /\ nextEventId' = NextIdAfter(db0.events)
     /\ sessionId' = NewUuid
     /\ uuids' = uuids + 1

(***************************************************************************)
(* Syncer.queueEvent.                                                      *)
(***************************************************************************)
\* a mutant of queueEvent: the API key is not looked at
QueueEventAnyway(sid, path, hash) ==
  /\ syncQueue' = Append(syncQueue, [sessionId |-> sid, filePath |-> path, hash |-> hash])
  /\ syncTimer' = TRUE

\* a mutant of queueEvent: the event is refused while an upload is in flight
QueueEventUnlessBusy(sid, path, hash) ==
  IF apiKey = Null \/ uploads # <<>>
  THEN UNCHANGED syncVars
  ELSE /\ syncQueue' = Append(syncQueue, [sessionId |-> sid, filePath |-> path, hash |-> hash])
       /\ syncTimer' = TRUE

\* a mutant of queueEvent: it does not return without an API key
QueueEventNeedsKey(sid, path, hash) ==
  /\ apiKey # Null
  /\ syncQueue' = Append(syncQueue, [sessionId |-> sid, filePath |-> path, hash |-> hash])
  /\ syncTimer' = TRUE

\* Syncer.queueEvent
QueueEvent(sid, path, hash) ==
  IF apiKey = Null
  THEN UNCHANGED syncVars
  ELSE /\ syncQueue' = Append(syncQueue, [sessionId |-> sid, filePath |-> path, hash |-> hash])
       /\ syncTimer' = TRUE

(***************************************************************************)
(* Sentinel: handleChange and processPendingChanges.                       *)
(***************************************************************************)
\* a mutant of handleChange: an event is queued again instead of replacing the entry
MapSetAppend(m, k, v) == Append(m, [path |-> k, type |-> v])

RECURSIVE MapSetKeepFirst(_, _, _)
\* a mutant of handleChange: the first event type of a path is kept
MapSetKeepFirst(m, k, v) ==
  IF m = <<>> THEN <<[path |-> k, type |-> v]>>
  ELSE IF Head(m).path = k THEN m
  ELSE <<Head(m)>> \o MapSetKeepFirst(Tail(m), k, v)

RECURSIVE MapSet(_, _, _)
\* Map.set: an existing key keeps its place, a new one goes last
MapSet(m, k, v) ==
  IF m = <<>> THEN <<[path |-> k, type |-> v]>>
  ELSE IF Head(m).path = k THEN <<[path |-> k, type |-> v]>> \o Tail(m)
  ELSE <<Head(m)>> \o MapSet(Tail(m), k, v)

\* private readonly debounceMs = 500
debounceMs == 500

\* the time, in ms, between two instants the model tells apart
TickMs == 250

\* the clock stops here
MaxNow == 1500

\* no settle of the path yet
NoLag == 0 - 1

\* handleChange: remember the latest event type of the path, re-arm the one timer
HandleChange(rel, type) ==
  /\ pendingChanges' = MapSet(pendingChanges, rel, type)
  /\ debounceTimer' = TRUE

\* a mutant of the loop: a deletion is processed like any other event
SkipNothing(todo) == todo

RECURSIVE SkipUnlinks(_)
\* the loop's `continue` on deletions
SkipUnlinks(todo) ==
  IF todo = <<>> THEN <<>>
  ELSE IF Head(todo).type = "unlink" THEN SkipUnlinks(Tail(todo))
  ELSE todo

\* a mutant of the loop: the try/catch is around the loop, an item ends the run
RunsAfterThrow(i) == RemoveAt(runs, i)

\* the loop reaches its next readFile, or ends
RunsAfterItem(i) ==
  LET rest == SkipUnlinks(Tail(runs[i].todo)) IN
  IF rest = <<>> THEN RemoveAt(runs, i)
  ELSE [runs EXCEPT ![i] = [@ EXCEPT !.todo = rest, !.pc = "read", !.text = Null, !.raw = Null, !.ver = 0,
                                  !.again = FALSE]]

AbsOf(rel) == PathJoin(ProjectRoot, rel)

CloseInfo(rel) ==
  [ver |-> hist.ver[rel],
   hash |-> IF AbsOf(rel) \in DOMAIN files
            THEN HashOfText(Utf8Decode(files[AbsOf(rel)])) ELSE Null]

\* the debounce timer fires: processPendingChanges up to its first await
TimerFire ==
  /\ debounceTimer
  /\ debounceTimer' = FALSE
  /\ pendingChanges' = <<>>
  /\ LET todo == SkipUnlinks(pendingChanges)
         w == hist.windows + 1
     IN /\ runs' = IF todo = <<>> THEN runs
                   ELSE Append(runs, [todo |-> todo, pc |-> "read", text |-> Null, raw |-> Null,
                                      ver |-> 0, again |-> FALSE,
                                      win |-> w, close |-> [r \in WatchedRel |-> CloseInfo(r)]])
        /\ hist' = [hist EXCEPT !.windows = w,
                     !.closed = @ \cup {[win |-> w, path |-> pendingChanges[k].path,
                                         type |-> pendingChanges[k].type] :
                                        k \in 1..Len(pendingChanges)},
                     !.clock.lag = [r \in WatchedRel |->
                                      IF \E k \in 1..Len(pendingChanges) : pendingChanges[k].path = r
                                      THEN hist.clock.now - hist.clock.last[r] ELSE @[r]]]
  /\ UNCHANGED <<files, blobs, journalVars, apiKey, netVars, syncVars, pollVars, fsOps, restarts>>

\* what the settle processing does once store() has returned: recordEvent, queueEvent, next item
RecordAndContinue(i, h) ==
  LET r == runs[i]
      rel == Head(r.todo).path
  IN /\ RecordEvent(sessionId, rel, h)
     /\ QueueEvent(sessionId, rel, h)
     /\ runs' = RunsAfterItem(i)
     /\ hist' = [hist EXCEPT !.recs = Append(@, [win |-> r.win, path |-> rel, hash |-> h,
                                                 ver |-> r.ver, raw |-> r.raw,
                                                 again |-> r.again, close |-> r.close[rel]]),
                              !.stored = @ \cup {[hash |-> h, bytes |-> r.raw, text |-> r.text]}]

\* some store(text) has already returned
StoredBefore(text) == \E s \in hist.stored : s.text = text

\* readFile completes; on success store() starts: the hash, then fs.access
RunRead(i) ==
  /\ runs[i].pc = "read"
  /\ LET rel == Head(runs[i].todo).path IN
     IF AbsOf(rel) \in DOMAIN files
     THEN runs' = [runs EXCEPT ![i] = [@ EXCEPT !.pc = "access",
                                         !.text = Utf8Decode(files[AbsOf(rel)]),
                                         !.raw = files[AbsOf(rel)],
                                         !.ver = hist.ver[rel],
                                         !.again = StoredBefore(Utf8Decode(files[AbsOf(rel)]))]]
          /\ UNCHANGED hist
     ELSE /\ runs' = RunsAfterItem(i)
          /\ hist' = [hist EXCEPT !.unreadable = @ \cup {[win |-> runs[i].win, path |-> rel]}]
  /\ UNCHANGED <<files, blobs, journalVars, pendingChanges, debounceTimer, apiKey, netVars, syncVars,
                 pollVars, fsOps, restarts>>

\* readFile rejects although the file is there (EACCES, EISDIR): the catch block takes
\* the error and the loop goes on with the next item
RunReadDenied(i) ==
  /\ runs[i].pc = "read"
  /\ AbsOf(Head(runs[i].todo).path) \in DOMAIN files
  /\ runs' = RunsAfterItem(i)
  /\ hist' = [hist EXCEPT !.unreadable = @ \cup {[win |-> runs[i].win,
                                                   path |-> Head(runs[i].todo).path]}]
  /\ UNCHANGED <<files, blobs, journalVars, pendingChanges, debounceTimer, apiKey, netVars,
                 syncVars, pollVars, fsOps, restarts>>

\* opening an object that is already complete truncates it
Clobbers(h) == IF h \in DOMAIN blobs /\ CanGunzip(blobs[h]) THEN {h} ELSE {}

\* a mutant of store: the existence probe is skipped, every call writes
StoreProbeNever(h) == FALSE

\* a mutant of store: the existence probe always succeeds, nothing is written
StoreProbeAlways(h) == TRUE

\* BlobStore.store's probe: fs.access(blobPath) succeeds
StoreProbe(h) == h \in DOMAIN blobs

\* fs.access completes: the blob is there and store returns, or writeFile is issued
RunAccess(i) ==
  /\ runs[i].pc = "access"
  /\ LET h == HashOfText(runs[i].text) IN
     IF StoreProbe(h)
     THEN /\ RecordAndContinue(i, h)
          /\ UNCHANGED blobs
     ELSE /\ runs' = [runs EXCEPT ![i] = [@ EXCEPT !.pc = "open"]]
          /\ UNCHANGED <<blobs, journalVars, syncVars, hist>>
  /\ UNCHANGED <<files, pendingChanges, debounceTimer, apiKey, netVars, pollVars, fsOps, restarts>>

\* writeFile opens the object for writing: it is created or truncated
RunOpen(i) ==
  /\ runs[i].pc = "open"
  /\ LET h == HashOfText(runs[i].text) IN
     /\ blobs' = Put(blobs, h, Truncated)
     /\ hist' = [hist EXCEPT !.clobbered = @ \cup Clobbers(h)]
  /\ runs' = [runs EXCEPT ![i] = [@ EXCEPT !.pc = "write"]]
  /\ UNCHANGED <<files, journalVars, pendingChanges, debounceTimer, apiKey, netVars, syncVars,
                 pollVars, fsOps, restarts>>

\* processPendingChanges' catch block: what it logs or rethrows of the error it caught
SettleCatchLogs == FALSE

\* store() has returned and recordEvent throws: lowdb has pushed the event in memory,
\* its write() of history.json fails; the catch block of the settle processing takes
\* the error, queueEvent is not reached, the next item is processed
RunRecordFail(i) ==
  /\ runs[i].pc \in {"access", "write"}
  /\ LET r == runs[i]
         h == HashOfText(r.text)
     IN /\ r.pc = "access" => StoreProbe(h)
        /\ blobs' = IF r.pc = "write" THEN Put(blobs, h, Gzip(Utf8Encode(r.text))) ELSE blobs
        /\ jdb' = DbRecordEvent(jdb, nextEventId, sessionId, Head(r.todo).path, h)
        /\ nextEventId' = nextEventId + 1
        /\ runs' = RunsAfterItem(i)
        /\ hist' = [hist EXCEPT !.jfail = TRUE, !.jlogged = @ \/ SettleCatchLogs,
                                !.stored = @ \cup {[hash |-> h, bytes |-> r.raw, text |-> r.text]}]
  /\ UNCHANGED <<files, jfile, sessionId, uuids, pendingChanges, debounceTimer, apiKey, netVars,
                 syncVars, pollVars, fsOps, restarts>>

\* writeFile completes with the compressed content; store returns
RunWrite(i) ==
  /\ runs[i].pc = "write"
  /\ LET h == HashOfText(runs[i].text) IN
     /\ blobs' = Put(blobs, h, Gzip(Utf8Encode(runs[i].text)))
     /\ RecordAndContinue(i, h)
  /\ UNCHANGED <<files, pendingChanges, debounceTimer, apiKey, netVars, pollVars, fsOps, restarts>>

(***************************************************************************)
(* The environment: files are written and deleted, chokidar reports it.    *)
(***************************************************************************)
\* setTimeout(..., this.debounceMs) at the time now: when the callback is due
DueAfter(now) == now + debounceMs

\* an event on the path: its mutation is counted, its time noted, the one timer set again
BumpVer(rel) ==
  [hist EXCEPT !.ver[rel] = @ + 1,
               !.clock.last[rel] = hist.clock.now,
               !.clock.due = DueAfter(hist.clock.now)]

FsWrite(rel, bytes) ==
  /\ fsOps < MaxFsOps
  /\ fsOps' = fsOps + 1
  /\ files' = Put(files, AbsOf(rel), bytes)
  /\ HandleChange(rel, IF AbsOf(rel) \in DOMAIN files THEN "change" ELSE "add")
  /\ hist' = BumpVer(rel)
  /\ UNCHANGED <<blobs, journalVars, runs, apiKey, netVars, syncVars, pollVars, restarts>>

FsUnlink(rel) ==
  /\ fsOps < MaxFsOps
  /\ AbsOf(rel) \in DOMAIN files
  /\ fsOps' = fsOps + 1
  /\ files' = Remove(files, AbsOf(rel))
  /\ HandleChange(rel, "unlink")
  /\ hist' = BumpVer(rel)
  /\ UNCHANGED <<blobs, journalVars, runs, apiKey, netVars, syncVars, pollVars, restarts>>

(***************************************************************************)
(* The process ends (stopped or killed) and the daemon is started again.   *)
(***************************************************************************)
Restart ==
  /\ restarts < MaxRestarts
  /\ restarts' = restarts + 1
  /\ OpenJournal
  /\ pendingChanges' = <<>>
  /\ debounceTimer' = FALSE
  /\ runs' = <<>>
  /\ syncQueue' = <<>>
  /\ syncTimer' = FALSE
  /\ execs' = <<>>
  /\ UNCHANGED <<files, blobs, apiKey, netVars, reports, polls, fsOps, hist>>

(***************************************************************************)
(* CommandPoller and the Restorer.                                         *)
(***************************************************************************)
\* payload.filePath of the commands the remote may issue
CmdPaths == {<<"a">>,
             <<".", ".", "/", "p", "e", "/", "a">>,
             <<".", ".", "/", "q", "/", "a">>}

\* payload.blobHash of the commands the remote may issue
CmdHashes == {Sha256(<<"68">>), Sha256(<<"efbfbd">>)}

\* the outcomes of GET /blobs/{hash}
FetchOutcomes == {"ok", "404"}

\* a mutant of the remote blob store: it answers with the object of the empty content
RemoteBlobEmpty(h) == Base64Encode(Gzip(<<>>))

\* the remote blob store answers with the object it holds for the hash
RemoteBlob(h) == Base64Encode(Gzip(h[2]))

\* restoreFile's guard: !resolvedTargetPath.startsWith(resolvedProjectRoot)
TraversalDetected(target) ==
  ~IsPrefix(PathResolve(ProjectRoot, <<>>), PathResolve(ProjectRoot, target))

\* computeCurrentFileHash: null when the file cannot be read
CurrentFileHash(filePath) ==
  LET resolved == PathResolve(ProjectRoot, filePath) IN
  IF resolved \in DOMAIN files THEN HashOfText(Utf8Decode(files[resolved])) ELSE Null

\* a mutant of executeFileRevert: the no-op check is always taken
SameHashAlways(cur, target) == TRUE

\* a mutant of executeFileRevert: the no-op check is never taken
SameHashNever(cur, target) == FALSE

\* executeFileRevert's no-op check: currentHash === blobHash
SameHash(cur, target) == cur = target

\* the body of the POST updateCommandStatus sends for the execution whose final fields
\* are e; its response has not arrived yet
StatusReport(status, e) ==
  [id |-> e.id, status |-> status, run |-> e.run,
   errorMessage |-> IF status = "FAILED" THEN e.threw ELSE Null, response |-> "pending"]

\* what hist.done keeps of a finished execution
DoneRecord(status, e) ==
  [id |-> e.id, status |-> status, same0 |-> e.same0 /\ e.ops0 = fsOps, cmp |-> e.cmp,
   restorer |-> e.restorer, wrote |-> e.wrote, fetched |-> e.fetched, run |-> e.run,
   threw |-> e.threw]

\* the id of an execution that is a direct call of restoreFile, not a command's
DirectCall == 0

\* updateCommandStatus, and the end of the execution whose final fields are e; a direct
\* call of restoreFile returns or rejects to its caller and nothing is posted
FinishWith(i, status, e) ==
  /\ reports' = IF e.id = DirectCall THEN reports ELSE Append(reports, StatusReport(status, e))
  /\ execs' = RemoveAt(execs, i)
  /\ hist' = [hist EXCEPT !.done = @ \cup {DoneRecord(status, e)},
                          !.http = IF e.id = DirectCall THEN @ ELSE @ \cup {"status"}]

\* a mutant of executeCommand: the catch block reports the command as done
CatchStatusCompleted == "COMPLETED"

\* executeCommand's catch block: updateCommandStatus(command.id, 'FAILED', error.message)
CatchStatus == "FAILED"

\* a throw inside executeFileRevert or restoreFile, caught by executeCommand
Throw(i, message, e) == FinishWith(i, CatchStatus, [e EXCEPT !.threw = message])

\* the executions started so far, this one included
NextRun == Len(reports) + Len(execs) + 1

\* executeFileRevert's local state at its first await
NewExec(id, filePath, blobHash) ==
  [id |-> id, filePath |-> filePath, blobHash |-> blobHash,
   pc |-> "exists", data |-> Null, text |-> Null, existed |-> FALSE,
   same0 |-> CurrentFileHash(filePath) = blobHash, ops0 |-> fsOps,
   cmp |-> "none", restorer |-> FALSE, wrote |-> FALSE,
   fetched |-> FALSE, run |-> NextRun, threw |-> Null]

\* poll() receives a FILE_REVERT command: executeFileRevert up to blobStore.exists
Poll(filePath, blobHash) ==
  /\ apiKey # Null
  /\ polls < MaxPolls
  /\ polls' = polls + 1
  /\ execs' = Append(execs, NewExec(polls + 1, filePath, blobHash))
  /\ UNCHANGED <<files, blobs, journalVars, watchVars, apiKey, netVars, syncVars, reports, fsOps,
                 restarts, hist>>

\* a mutant of executeFileRevert: the blob is taken to be in the local store
BlobExistsAlways(h) == TRUE

\* BlobStore.exists: fs.access(blobPath) succeeds
BlobExists(h) == h \in DOMAIN blobs

\* blobStore.exists completes: fetch the blob when it is absent
ExecExists(i) ==
  /\ execs[i].pc = "exists"
  /\ execs' = [execs EXCEPT ![i] = [@ EXCEPT !.pc =
                  IF BlobExists(execs[i].blobHash) THEN "curhash" ELSE "fetch"]]
  /\ hist' = IF BlobExists(execs[i].blobHash) THEN hist
             ELSE [hist EXCEPT !.http = @ \cup {"blob"}]
  /\ UNCHANGED <<files, blobs, journalVars, watchVars, apiKey, netVars, syncVars, reports, polls,
                 fsOps, restarts>>

\* fetchBlobFromCloud: the response arrives; a failure is thrown and reported FAILED
ExecFetch(i, outcome) ==
  /\ execs[i].pc = "fetch"
  /\ IF outcome = "ok"
     THEN /\ execs' = [execs EXCEPT ![i] = [@ EXCEPT !.pc = "fopen",
                                              !.data = RemoteBlob(execs[i].blobHash)]]
          /\ UNCHANGED <<reports, hist>>
     ELSE Throw(i, <<"Failed to fetch blob from cloud">>, execs[i])
  /\ UNCHANGED <<files, blobs, journalVars, watchVars, apiKey, netVars, syncVars, polls, fsOps, restarts>>

\* fetchBlobFromCloud: writeFile opens the object for writing
ExecFetchOpen(i) ==
  /\ execs[i].pc = "fopen"
  /\ LET h == execs[i].blobHash IN
     /\ blobs' = Put(blobs, h, Truncated)
     /\ hist' = [hist EXCEPT !.clobbered = @ \cup Clobbers(h)]
  /\ execs' = [execs EXCEPT ![i] = [@ EXCEPT !.pc = "fwrite"]]
  /\ UNCHANGED <<files, journalVars, watchVars, apiKey, netVars, syncVars, reports, polls, fsOps, restarts>>

\* fetchBlobFromCloud: writeFile completes with the decoded content
ExecFetchWrite(i) ==
  /\ execs[i].pc = "fwrite"
  /\ blobs' = Put(blobs, execs[i].blobHash, Base64Decode(execs[i].data))
  /\ execs' = [execs EXCEPT ![i] = [@ EXCEPT !.pc = "curhash", !.fetched = TRUE]]
  /\ UNCHANGED <<files, journalVars, watchVars, apiKey, netVars, syncVars, reports, polls, fsOps,
                 restarts, hist>>

\* computeCurrentFileHash completes: the no-op check, else restoreFile up to its fs.access
ExecCurHash(i) ==
  /\ execs[i].pc = "curhash"
  /\ LET e == execs[i]
         cur == CurrentFileHash(e.filePath)
         e1 == [e EXCEPT !.cmp = IF cur = e.blobHash THEN "same" ELSE "differs"]
         e2 == [e1 EXCEPT !.restorer = TRUE]
     IN IF SameHash(cur, e.blobHash)
        THEN FinishWith(i, "COMPLETED", e1)
        ELSE IF TraversalDetected(e.filePath)
             THEN Throw(i, <<"Path traversal detected">>, e2)
             ELSE /\ execs' = [execs EXCEPT ![i] = [e2 EXCEPT !.pc = "raccess"]]
                  /\ UNCHANGED <<reports, hist>>
  /\ UNCHANGED <<files, blobs, journalVars, watchVars, apiKey, netVars, syncVars, polls, fsOps, restarts>>

\* a mutant of restoreFile: the blob is read without the existence check
AccessFailsNever(h) == FALSE

\* restoreFile's existence check: fs.access(blobPath) rejects
AccessFails(h) == h \notin DOMAIN blobs

\* gunzipSync(compressedData): its output, nothing when it throws
Inflated(blob) == IF CanGunzip(blob) THEN Gunzip(blob) ELSE <<>>

\* a mutant of restoreFile: gunzipSync never throws
GunzipThrowsNever(blob) == FALSE

\* gunzipSync(compressedData) throws
GunzipThrows(blob) == ~CanGunzip(blob)

\* restoreFile: fs.access and readFile of the blob, gunzipSync, then ensureDir is issued
ExecRestoreRead(i) ==
  /\ execs[i].pc = "raccess"
  /\ LET e == execs[i]
         compressedData == IF e.blobHash \in DOMAIN blobs THEN blobs[e.blobHash] ELSE Null
     IN IF AccessFails(e.blobHash)
        THEN Throw(i, <<"Blob not found">>, e)
        ELSE IF GunzipThrows(compressedData)
        THEN Throw(i, <<"Failed to decompress blob">>, e)
        ELSE /\ execs' = [execs EXCEPT ![i] = [@ EXCEPT !.pc = "ropen",
                             !.text = Utf8Decode(Inflated(compressedData))]]
             /\ UNCHANGED <<reports, hist>>
  /\ UNCHANGED <<files, blobs, journalVars, watchVars, apiKey, netVars, syncVars, polls, fsOps, restarts>>

WatchedTarget(target) ==
  /\ InsideRoot(target)
  /\ PathRelative(ProjectRoot, target) \in WatchedRel

BumpTarget(target) ==
  IF WatchedTarget(target) THEN BumpVer(PathRelative(ProjectRoot, target)) ELSE hist

\* path.dirname of an absolute path
PathDirname(abs) ==
  LET segs == Normalize(Split(abs), <<>>) IN AbsString(SubSeq(segs, 1, Len(segs) - 1))

\* the directory is there: the project root and what is above it, a directory that
\* holds a file, a directory ensureDir has made
DirExists(dir) ==
  \/ IsPrefix(dir, ProjectRoot)
  \/ \E f \in DOMAIN files : PathDirname(f) = dir
  \/ dir \in hist.mkdirs

\* fsExtra.ensureDir(dir): the directories it has made so far
EnsureDir(dir) == IF DirExists(dir) THEN hist.mkdirs ELSE hist.mkdirs \cup {dir}

\* restoreFile: ensureDir completes and writeFile opens the target: it is created or
\* truncated
ExecRestoreOpen(i) ==
  /\ execs[i].pc = "ropen"
  /\ LET target == PathResolve(ProjectRoot, execs[i].filePath) IN
     /\ files' = Put(files, target, <<>>)
     /\ execs' = [execs EXCEPT ![i] = [@ EXCEPT !.pc = "rwrite", !.wrote = TRUE,
                                          !.existed = target \in DOMAIN files]]
     /\ hist' = [BumpTarget(target) EXCEPT !.mkdirs = EnsureDir(PathDirname(target))]
  /\ UNCHANGED <<blobs, journalVars, watchVars, apiKey, netVars, syncVars, reports, polls, fsOps, restarts>>

\* restoreFile: writeFile completes; COMPLETED is reported; chokidar reports the write
ExecRestoreWrite(i) ==
  /\ execs[i].pc = "rwrite"
  /\ LET e == execs[i]
         target == PathResolve(ProjectRoot, e.filePath)
         h1 == BumpTarget(target)
     IN /\ files' = Put(files, target, Utf8Encode(e.text))
        /\ reports' = IF e.id = DirectCall THEN reports
                      ELSE Append(reports, StatusReport("COMPLETED", e))
        /\ execs' = RemoveAt(execs, i)
        /\ hist' = [h1 EXCEPT !.done = @ \cup {DoneRecord("COMPLETED", e)},
                               !.http = IF e.id = DirectCall THEN @ ELSE @ \cup {"status"},
                               !.restored = @ \cup {[hash |-> e.blobHash, path |-> target,
                                                     bytes |-> Utf8Encode(e.text)]}]
        /\ IF WatchedTarget(target)
           THEN HandleChange(PathRelative(ProjectRoot, target),
                             IF e.existed THEN "change" ELSE "add")
           ELSE UNCHANGED <<pendingChanges, debounceTimer>>
  /\ UNCHANGED <<blobs, journalVars, runs, apiKey, netVars, syncVars, polls, fsOps, restarts>>

(***************************************************************************)
(* CommandPoller: start, the poll loop, stop.                              *)
(***************************************************************************)
\* poll answers other than "no command" (after them the remote has no more commands)
MaxPollAnswers == 2

\* poll requests in flight at once
MaxFlights == 2

\* the commands GET /commands/poll may answer with; an empty filePath is a missing one
PollCommands ==
  {[id |-> 1, type |-> "FILE_REVERT", filePath |-> <<"a">>, blobHash |-> Sha256(<<"68">>)],
   [id |-> 2, type |-> "FILE_REVERT", filePath |-> <<".", ".", "/", "q", "/", "a">>,
    blobHash |-> Sha256(<<"68">>)],
   [id |-> 3, type |-> "FILE_DELETE", filePath |-> <<"a">>, blobHash |-> Sha256(<<"68">>)],
   [id |-> 4, type |-> "FILE_REVERT", filePath |-> <<>>, blobHash |-> Sha256(<<"68">>)]}

\* the answers to a poll that carry no command: 401 or 403, another failure, no command
PollFailures == {"auth", "error", "none"}

\* poll() past its apiKey check: the GET is sent
PollRequest(p) == [p EXCEPT !.flights = @ + 1]

\* CommandPoller.stop
PollerStopped(p) == [p EXCEPT !.pollInterval = FALSE, !.isRunning = FALSE]

\* CommandPoller.start, called once by the watch command
PollerStart ==
  /\ ~poller.started
  /\ shutdown.pc = "running"
  /\ IF poller.isRunning \/ apiKey = Null
     THEN /\ poller' = [poller EXCEPT !.started = TRUE]
          /\ UNCHANGED hist
     ELSE /\ poller' = PollRequest([poller EXCEPT !.started = TRUE, !.isRunning = TRUE,
                                                  !.pollInterval = TRUE])
          /\ hist' = [hist EXCEPT !.http = @ \cup {"poll"}]
  /\ UNCHANGED <<files, blobs, journalVars, watchVars, apiKey, syncVars, pollVars, fsOps,
                 restarts, uploads, resched, shutdown>>

\* the interval fires: poll()
PollTick ==
  /\ poller.pollInterval
  /\ poller.flights < MaxFlights
  /\ IF apiKey = Null
     THEN UNCHANGED <<poller, hist>>
     ELSE /\ poller' = PollRequest(poller)
          /\ hist' = [hist EXCEPT !.http = @ \cup {"poll"}]
  /\ UNCHANGED <<files, blobs, journalVars, watchVars, apiKey, syncVars, pollVars, fsOps,
                 restarts, uploads, resched, shutdown>>

\* a mutant of poll: any answer that is not ok stops the loop
PollStopsOnFailure(outcome) == outcome # "none"

\* response.status === 401 || response.status === 403: this.stop()
PollStops(outcome) == outcome = "auth"

\* a poll is answered without a command: an auth rejection stops the loop
PollNoCommand(outcome) ==
  /\ poller.flights > 0
  /\ outcome # "none" => Len(poller.responses) < MaxPollAnswers
  /\ LET p == [poller EXCEPT !.flights = @ - 1,
                             !.responses = IF Len(@) < MaxPollAnswers
                                           THEN Append(@, [kind |-> outcome, id |-> 0])
                                           ELSE @]
     IN poller' = IF PollStops(outcome) THEN PollerStopped(p) ELSE p
  /\ UNCHANGED <<files, blobs, journalVars, watchVars, apiKey, syncVars, pollVars, fsOps,
                 restarts, uploads, resched, shutdown, hist>>

\* a poll is answered with a command: executeCommand, executeFileRevert up to its first await
PollCommand(cmd) ==
  /\ poller.flights > 0
  /\ Len(poller.responses) < MaxPollAnswers
  /\ poller' = [poller EXCEPT !.flights = @ - 1, !.responses = Append(@, [kind |-> "command", id |-> cmd.id])]
  /\ LET e == NewExec(cmd.id, cmd.filePath, cmd.blobHash) IN
     IF cmd.type # "FILE_REVERT"
     THEN Throw(Len(execs) + 1, <<"Unknown command type">>, e)
     ELSE IF cmd.filePath = <<>> \/ cmd.blobHash = <<>>
     THEN Throw(Len(execs) + 1, <<"Missing filePath or blobHash in command payload">>, e)
     ELSE /\ execs' = Append(execs, e)
          /\ UNCHANGED <<reports, hist>>
  /\ UNCHANGED <<files, blobs, journalVars, watchVars, apiKey, syncVars, polls, fsOps,
                 restarts, uploads, resched, shutdown>>

\* direct calls of restoreFile
MaxRestoreCalls == 1

\* restoreFile(hash, targetPath, projectRoot) called directly: the traversal guard, then
\* fs.access is issued
RestoreCall(hash, targetPath) ==
  /\ polls < MaxRestoreCalls
  /\ polls' = polls + 1
  /\ LET e == [NewExec(DirectCall, targetPath, hash) EXCEPT !.restorer = TRUE, !.run = polls + 1] IN
     IF TraversalDetected(targetPath)
     THEN Throw(Len(execs) + 1, <<"Path traversal detected">>, e)
     ELSE /\ execs' = Append(execs, [e EXCEPT !.pc = "raccess"])
          /\ UNCHANGED <<reports, hist>>
  /\ UNCHANGED <<files, blobs, journalVars, watchVars, apiKey, netVars, syncVars, fsOps, restarts>>

\* restoreFile: ensureDir or writeFile rejects (no permission, no space)
ExecRestoreFail(i) ==
  /\ execs[i].pc = "ropen"
  /\ Throw(i, <<"EACCES: permission denied">>, execs[i])
  /\ UNCHANGED <<files, blobs, journalVars, watchVars, apiKey, netVars, syncVars, polls, fsOps,
                 restarts>>

\* the answer to updateCommandStatus's POST arrives; a failure is logged, nothing more
StatusResponse(k, ok) ==
  /\ reports[k].response = "pending"
  /\ reports' = [reports EXCEPT ![k].response = IF ok THEN "ok" ELSE "failed"]
  /\ UNCHANGED <<files, blobs, journalVars, watchVars, apiKey, netVars, syncVars, execs, polls,
                 fsOps, restarts, hist>>

(***************************************************************************)
(* Syncer: syncBatch and flush; the shutdown handler of the watch command. *)
(***************************************************************************)
\* Syncer.batchSize
BatchSize == 10

\* events recorded in the syncer's specifications
MaxRecorded == 12

\* syncBatch invocations in progress at once
MaxUploads == 2

\* the answers to POST /history/sync: all events stored, all already known, a 2xx answer
\* whose body says success: false, and a failure (network error or non-2xx answer)
SyncOutcomes == {"synced", "skipped", "rejected", "failed"}

\* a mutant of syncBatch: the last entry of the batch stays at the head of the queue
RestOfFromLast(queue) == SubSeq(queue, Len(queue), Len(queue))

\* a mutant of syncBatch: the batch is read from the queue and left in it
RestOfKeep(queue) == queue

\* a mutant of splice(0, batchSize): the newest entries are taken
BatchOfNewest(queue) ==
  SubSeq(queue, IF Len(queue) < BatchSize THEN 1 ELSE Len(queue) - BatchSize + 1, Len(queue))

\* Array.prototype.splice(0, batchSize): what is taken and what stays
BatchOf(queue) == SubSeq(queue, 1, IF Len(queue) < BatchSize THEN Len(queue) ELSE BatchSize)
RestOf(queue) == SubSeq(queue, Len(BatchOf(queue)) + 1, Len(queue))

\* syncBatch's local state at its first await (the blobs of the batch are read)
NewUpload(queue, by) == [batch |-> BatchOf(queue), pc |-> "read", by |-> by, blobs |-> <<>>]

\* what syncBatch returns: the body of a 2xx answer, or the catch block's result
SyncResult(outcome, batch) ==
  [success |-> outcome \in {"synced", "skipped"},
   synced |-> IF outcome = "synced" THEN Len(batch) ELSE 0,
   skipped |-> IF outcome \in {"skipped", "failed"} THEN Len(batch) ELSE 0]

\* a mutant of syncBatch: no further sync is ever scheduled
ReschedulesNever(outcome, queue) == FALSE

\* syncBatch arms a timer for another sync: the answer was 2xx and entries remain queued
Reschedules(outcome, queue) == outcome # "failed" /\ Len(queue) > 0

RECURSIVE SumSynced(_)
\* results.reduce((sum, r) => sum + r.synced, 0)
SumSynced(results) ==
  IF results = <<>> THEN 0 ELSE Head(results).synced + SumSynced(Tail(results))

RECURSIVE SumSkipped(_)
\* results.reduce((sum, r) => sum + r.skipped, 0)
SumSkipped(results) ==
  IF results = <<>> THEN 0 ELSE Head(results).skipped + SumSkipped(Tail(results))

\* a mutant of flush: success when some batch succeeded
SomeSuccess(results) == \E k \in 1..Len(results) : results[k].success

\* results.every(r => r.success)
AllSuccess(results) == \A k \in 1..Len(results) : results[k].success

\* flush's return value
Aggregate(results) ==
  [success |-> AllSuccess(results), synced |-> SumSynced(results),
   skipped |-> SumSkipped(results)]

\* a timer calls syncBatch: nothing queued, no API key, or a batch is taken
TimerBatch ==
  IF syncQueue = <<>> THEN UNCHANGED <<syncQueue, uploads>>
  ELSE IF apiKey = Null THEN syncQueue' = <<>> /\ UNCHANGED uploads
  ELSE /\ syncQueue' = RestOf(syncQueue)
       /\ uploads' = Append(uploads, NewUpload(syncQueue, "timer"))

\* the timer queueEvent armed fires
SyncTimerFire ==
  /\ shutdown.pc # "exited"
  /\ syncTimer
  /\ Len(uploads) < MaxUploads
  /\ syncTimer' = FALSE
  /\ TimerBatch
  /\ UNCHANGED <<files, blobs, journalVars, watchVars, apiKey, pollVars, fsOps, restarts,
                 poller, resched, shutdown, hist>>

\* a timer syncBatch armed fires
ReschedFire ==
  /\ shutdown.pc # "exited"
  /\ resched > 0
  /\ Len(uploads) < MaxUploads
  /\ resched' = resched - 1
  /\ TimerBatch
  /\ UNCHANGED <<files, blobs, journalVars, watchVars, apiKey, pollVars, fsOps, restarts,
                 poller, syncTimer, shutdown, hist>>

\* the blobs of the batch have been read (those that can be); the POST is sent
\* new Set(batch.map(e => e.hash))
UniqueHashes(batch) == {batch[k].hash : k \in 1..Len(batch)}

\* a mutant of the loop over the hashes: a hash that cannot be read gets an empty entry
BlobsOfEvery(batch, denied) ==
  [h \in UniqueHashes(batch) |->
     IF h \in DOMAIN blobs /\ h \notin denied THEN Base64Encode(blobs[h]) ELSE <<>>]

\* the blobs map once the loop over the hashes is done: an entry for each hash whose
\* readFile succeeded; the reads of the hashes in denied are rejected
BlobsOf(batch, denied) ==
  [h \in (UniqueHashes(batch) \cap DOMAIN blobs) \ denied |-> Base64Encode(blobs[h])]

\* the loop over the hashes of the batch ends and the request is sent
ReadBlobs(u, denied) ==
  /\ shutdown.pc # "exited"
  /\ uploads[u].pc = "read"
  /\ uploads' = [uploads EXCEPT ![u] = [@ EXCEPT !.pc = "post",
                                           !.blobs = BlobsOf(uploads[u].batch, denied)]]
  /\ hist' = [hist EXCEPT !.http = @ \cup {"sync"},
                          !.posted = @ + Len(uploads[u].batch)]
  /\ UNCHANGED <<files, blobs, journalVars, watchVars, apiKey, pollVars, fsOps, restarts,
                 poller, syncVars, resched, shutdown>>

\* every readFile of an object that is there succeeds
SyncReadBlobs(u) == ReadBlobs(u, {})

\* some readFile of an object that is there is rejected (EACCES, EIO)
SyncReadBlobsDenied(u, denied) ==
  /\ denied # {}
  /\ denied \subseteq UniqueHashes(uploads[u].batch) \cap DOMAIN blobs
  /\ ReadBlobs(u, denied)

\* the running totals of the batches flush() has awaited
Tally(t, outcome, n) ==
  [batches |-> t.batches + 1,
   synced |-> t.synced + (IF outcome = "synced" THEN n ELSE 0),
   skipped |-> t.skipped + (IF outcome \in {"skipped", "failed"} THEN n ELSE 0),
   allOk |-> t.allOk /\ outcome \in {"synced", "skipped"},
   failed |-> t.failed + (IF outcome = "failed" THEN 1 ELSE 0)]

\* the shutdown handler after flush has returned r: journal.close(), process.exit(0)
Exited(r) == [shutdown EXCEPT !.pc = "exited", !.result = r]

\* the POST is answered or fails: syncBatch returns; flush, when it awaited this batch,
\* takes the next one or returns
SyncResponse(u, outcome) ==
  /\ shutdown.pc # "exited"
  /\ uploads[u].pc = "post"
  /\ LET up == uploads[u]
         r == SyncResult(outcome, up.batch)
         rs == Append(shutdown.results, r)
     IN /\ resched' = IF Reschedules(outcome, syncQueue) THEN resched + 1 ELSE resched
        /\ hist' = [hist EXCEPT !.uploadFailed = @ \/ outcome = "failed",
                                !.flushed = IF up.by = "flush" THEN Tally(@, outcome, Len(up.batch))
                                            ELSE @]
        /\ IF up.by = "timer"
           THEN /\ uploads' = RemoveAt(uploads, u)
                /\ UNCHANGED <<syncQueue, shutdown>>
           ELSE IF Len(syncQueue) > 0
           THEN /\ uploads' = Append(RemoveAt(uploads, u), NewUpload(syncQueue, "flush"))
                /\ syncQueue' = RestOf(syncQueue)
                /\ shutdown' = [shutdown EXCEPT !.results = rs]
           ELSE /\ uploads' = RemoveAt(uploads, u)
                /\ shutdown' = Exited(Aggregate(rs))
                /\ UNCHANGED syncQueue
  /\ UNCHANGED <<files, blobs, journalVars, watchVars, apiKey, pollVars, fsOps, restarts,
                 poller, syncTimer>>

\* SIGINT or SIGTERM: commandPoller.stop(), then sentinel.stop() up to watcher.close()
Shutdown ==
  /\ shutdown.pc = "running"
  /\ poller' = PollerStopped(poller)
  /\ debounceTimer' = FALSE
  /\ shutdown' = [shutdown EXCEPT !.pc = "closing"]
  /\ UNCHANGED <<files, blobs, journalVars, pendingChanges, runs, apiKey, syncVars, pollVars,
                 fsOps, restarts, uploads, resched, hist>>

\* watcher.close() has completed: flush() when the syncer is configured, journal.close(),
\* and back in the handler process.exit(0)
WatcherClosed ==
  /\ shutdown.pc = "closing"
  /\ IF apiKey = Null
     THEN /\ shutdown' = Exited(Null)
          /\ UNCHANGED <<syncVars, uploads>>
     ELSE /\ syncTimer' = FALSE
          /\ IF Len(syncQueue) > 0
             THEN /\ uploads' = Append(uploads, NewUpload(syncQueue, "flush"))
                  /\ syncQueue' = RestOf(syncQueue)
                  /\ shutdown' = [shutdown EXCEPT !.pc = "flushing"]
             ELSE /\ shutdown' = Exited(Aggregate(<<>>))
                  /\ UNCHANGED <<syncQueue, uploads>>
  /\ UNCHANGED <<files, blobs, journalVars, watchVars, apiKey, pollVars, fsOps, restarts,
                 poller, resched, hist>>

\* processPendingChanges past store(): journal.recordEvent, then syncer.queueEvent
WatchRecord(rel, h) ==
  /\ shutdown.pc # "exited"
  /\ Len(jdb.events) < MaxRecorded
  /\ RecordEvent(sessionId, rel, h)
  /\ QueueEvent(sessionId, rel, h)
  /\ hist' = [hist EXCEPT !.during = IF apiKey # Null /\ uploads # <<>>
                                     THEN Len(jdb.events) + 1 ELSE @]
  /\ UNCHANGED <<files, blobs, watchVars, apiKey, pollVars, fsOps, restarts, poller, uploads,
                 resched, shutdown>>

(***************************************************************************)
(* Journal operations called directly (the journal-only specification).    *)
(***************************************************************************)
\* restarts of the journal-only specification
MaxJournalRestarts == 2

JournalRecordEvent(rel, h) ==
  /\ Len(jdb.events) < MaxEvents
  /\ RecordEvent(sessionId, rel, h)
  /\ UNCHANGED <<files, blobs, watchVars, apiKey, netVars, syncVars, pollVars, fsOps, restarts, hist>>

JournalRestart ==
  /\ restarts < MaxJournalRestarts
  /\ restarts' = restarts + 1
  /\ OpenJournal
  /\ UNCHANGED <<files, blobs, watchVars, apiKey, netVars, syncVars, pollVars, fsOps, hist>>

(***************************************************************************)
(* The journal with its timestamps, and its queries.                       *)
(***************************************************************************)
\* the readings of Date.now()
MaxClock == 2

\* Journal.recordEvent with the reading of Date.now() it takes
DbRecordEventAt(db, id, sid, path, hash, timestamp) ==
  [db EXCEPT !.events = Append(@, [id |-> id, sessionId |-> sid, filePath |-> path,
                                   hash |-> hash, timestamp |-> timestamp])]

\* the last reading of the clock that was journaled
LastStamp == IF jdb.events = <<>> THEN 1 ELSE jdb.events[Len(jdb.events)].timestamp

\* recordEvent on the live journal at clock reading now, which is not before the last
JournalRecordEventAt(rel, h, now) ==
  /\ Len(jdb.events) < MaxEvents
  /\ now >= LastStamp
  /\ jdb' = DbRecordEventAt(jdb, nextEventId, sessionId, rel, h, now)
  /\ jfile' = jdb'
  /\ nextEventId' = nextEventId + 1
  /\ UNCHANGED <<sessionId, uuids, files, blobs, watchVars, apiKey, netVars, syncVars, pollVars,
                 fsOps, restarts, hist>>

\* getSessionEvents' sort key: sortBy('timestamp')
SessionKey(e) == e.timestamp

\* a mutant of getFileEvents: the oldest first
FileKeyAscending(e) == e.timestamp

\* getFileEvents' and getLatestFileEvent's sort key: sortBy(event => -event.timestamp)
FileKey(e) == 0 - e.timestamp

KeyOf(e, by) == IF by = "session" THEN SessionKey(e) ELSE FileKey(e)

RECURSIVE InsertBy(_, _, _)
\* e put after the elements of the sorted sequence whose key is not greater than its own
InsertBy(e, sorted, by) ==
  IF sorted = <<>> THEN <<e>>
  ELSE IF KeyOf(Head(sorted), by) <= KeyOf(e, by)
       THEN <<Head(sorted)>> \o InsertBy(e, Tail(sorted), by)
       ELSE <<e>> \o sorted

RECURSIVE SortBy(_, _)
\* lodash sortBy: ascending by key, elements of equal key in their original order
SortBy(events, by) ==
  IF events = <<>> THEN <<>>
  ELSE InsertBy(events[Len(events)], SortBy(SubSeq(events, 1, Len(events) - 1), by), by)

\* Journal.getSessionEvents
GetSessionEvents(db, sid) ==
  LET Match(e) == e.sessionId = sid IN SortBy(SelectSeq(db.events, Match), "session")

\* Journal.getFileEvents
GetFileEvents(db, path) ==
  LET Match(e) == e.filePath = path IN SortBy(SelectSeq(db.events, Match), "file")

\* Journal.getLatestFileEvent: events[0], or null, here the empty sequence
GetLatestFileEvent(db, path) ==
  LET Match(e) == e.filePath = path
      events == SortBy(SelectSeq(db.events, Match), "file")
  IN IF Len(events) = 0 THEN <<>> ELSE <<events[1]>>

\* the three queries are called on the live journal; what they were asked and returned
JournalQuery(sid, path) ==
  /\ hist' = [hist EXCEPT !.query = [events |-> jdb.events, sessionId |-> sid, filePath |-> path,
                                     sessionEvents |-> GetSessionEvents(jdb, sid),
                                     fileEvents |-> GetFileEvents(jdb, path),
                                     latest |-> GetLatestFileEvent(jdb, path)]]
  /\ UNCHANGED <<files, blobs, journalVars, watchVars, apiKey, netVars, syncVars, pollVars, fsOps,
                 restarts>>

(***************************************************************************)
(* Specifications.                                                         *)
(***************************************************************************)
FirstUuid == <<"uuid", 1>>

Init ==
  /\ files \in {<<>>, AbsOf(<<"a">>) :> <<"68">>}
  /\ blobs = <<>>
  /\ jdb = DbCreateSession(LowdbDefaults(NoFile), FirstUuid)
  /\ jfile = jdb
  /\ nextEventId = NextIdAfter(LowdbDefaults(NoFile).events)
  /\ sessionId = FirstUuid
  /\ uuids = 1
  /\ pendingChanges = <<>>
  /\ debounceTimer = FALSE
  /\ runs = <<>>
  /\ apiKey \in {Null, <<"key">>}
  /\ syncQueue = <<>>
  /\ syncTimer = FALSE
  /\ execs = <<>>
  /\ reports = <<>>
  /\ fsOps = 0
  /\ restarts = 0
  /\ polls = 0
  /\ hist = [ver |-> [r \in WatchedRel |-> 0], windows |-> 0, closed |-> {}, recs |-> <<>>,
             clobbered |-> {}, done |-> {}, restored |-> {}, stored |-> {}, unreadable |-> {},
             http |-> {}, posted |-> 0, uploadFailed |-> FALSE, mkdirs |-> {},
             jfail |-> FALSE, jlogged |-> FALSE, during |-> 0,
             clock |-> [now |-> 0, due |-> 0, last |-> [r \in WatchedRel |-> 0],
                        lag |-> [r \in WatchedRel |-> NoLag]],
             query |-> [events |-> <<>>, sessionId |-> Null, filePath |-> Null,
                        sessionEvents |-> <<>>, fileEvents |-> <<>>, latest |-> <<>>],
             flushed |-> [batches |-> 0, synced |-> 0, skipped |-> 0, allOk |-> TRUE,
                          failed |-> 0]]
  /\ poller = [started |-> FALSE, isRunning |-> FALSE, pollInterval |-> FALSE, flights |-> 0,
               responses |-> <<>>]
  /\ uploads = <<>>
  /\ resched = 0
  /\ shutdown = [pc |-> "running", results |-> <<>>, result |-> Null]

\* the environment's writes and deletions of the files P, with the contents B
FsNext(P, B) ==
  \/ \E rel \in P, bytes \in B : FsWrite(rel, bytes)
  \/ \E rel \in P : FsUnlink(rel)

RunNext ==
  \/ \E i \in 1..Len(runs) : RunRead(i)
  \/ \E i \in 1..Len(runs) : RunAccess(i)
  \/ \E i \in 1..Len(runs) : RunOpen(i)
  \/ \E i \in 1..Len(runs) : RunWrite(i)

PollNext ==
  \/ \E filePath \in CmdPaths, blobHash \in CmdHashes : Poll(filePath, blobHash)
  \/ \E i \in 1..Len(execs) : ExecExists(i)
  \/ \E i \in 1..Len(execs), outcome \in FetchOutcomes : ExecFetch(i, outcome)
  \/ \E i \in 1..Len(execs) : ExecFetchOpen(i)
  \/ \E i \in 1..Len(execs) : ExecFetchWrite(i)
  \/ \E i \in 1..Len(execs) : ExecCurHash(i)
  \/ \E i \in 1..Len(execs) : ExecRestoreRead(i)
  \/ \E i \in 1..Len(execs) : ExecRestoreOpen(i)
  \/ \E i \in 1..Len(execs) : ExecRestoreWrite(i)

\* the whole daemon, on one watched file
Next ==
  \/ FsNext({<<"a">>}, {<<"68">>, <<"ff">>})
  \/ TimerFire
  \/ RunNext
  \/ PollNext
  \/ Restart

Spec == Init /\ [][Next]_vars

\* the watcher alone, on every watched file
WatchNext ==
  \/ FsNext(WatchedRel, FileBytes)
  \/ TimerFire
  \/ RunNext

SpecWatch == Init /\ [][WatchNext]_vars

\* the watcher alone, on text files
LiveNext ==
  \/ FsNext(WatchedRel, {<<"68">>, <<"77">>})
  \/ TimerFire
  \/ RunNext

\* the watcher alone, on files that may be unreadable
DeniedNext ==
  \/ FsNext(WatchedRel, {<<"68">>, <<"77">>})
  \/ TimerFire
  \/ RunNext
  \/ \E i \in 1..Len(runs) : RunReadDenied(i)

SpecDenied == Init /\ [][DeniedNext]_vars

\* the debounce timer is armed and its delay has passed
TimerDue == debounceTimer /\ hist.clock.now >= hist.clock.due

\* time passes, up to the moment the armed timer is due
Tick ==
  /\ hist.clock.now < MaxNow
  /\ ~TimerDue
  /\ hist' = [hist EXCEPT !.clock.now = @ + TickMs]
  /\ UNCHANGED <<files, blobs, journalVars, watchVars, apiKey, netVars, syncVars, pollVars,
                 fsOps, restarts>>

\* the watcher alone, with the time of each event and the timer firing when it is due
DebounceNext ==
  \/ Tick
  \/ FsNext(WatchedRel, {<<"68">>})
  \/ TimerDue /\ TimerFire
  \/ RunNext

SpecDebounce == Init /\ [][DebounceNext]_vars

\* timers fire and asynchronous I/O completes
FairWatch == Init /\ [][LiveNext]_vars /\ WF_vars(TimerFire) /\ WF_vars(RunNext)

ExecNext ==
  \/ \E i \in 1..Len(execs) : ExecExists(i)
  \/ \E i \in 1..Len(execs), outcome \in FetchOutcomes : ExecFetch(i, outcome)
  \/ \E i \in 1..Len(execs) : ExecFetchOpen(i)
  \/ \E i \in 1..Len(execs) : ExecFetchWrite(i)
  \/ \E i \in 1..Len(execs) : ExecCurHash(i)
  \/ \E i \in 1..Len(execs) : ExecRestoreRead(i)
  \/ \E i \in 1..Len(execs) : ExecRestoreOpen(i)
  \/ \E i \in 1..Len(execs) : ExecRestoreFail(i)
  \/ \E i \in 1..Len(execs) : ExecRestoreWrite(i)

PollLoopNext ==
  \/ PollerStart
  \/ PollTick
  \/ \E outcome \in PollFailures : PollNoCommand(outcome)
  \/ \E cmd \in PollCommands : PollCommand(cmd)

StatusNext == \E k \in 1..Len(reports), ok \in BOOLEAN : StatusResponse(k, ok)

\* the command channel alone: the poll loop, the executions, the status reports
PollerNext ==
  \/ PollLoopNext
  \/ ExecNext
  \/ StatusNext

SpecPoller == Init /\ [][PollerNext]_vars

\* the interval fires, requests are answered and awaited I/O completes
FairPoller ==
  Init /\ [][PollerNext]_vars /\ WF_vars(PollLoopNext) /\ WF_vars(ExecNext) /\ WF_vars(StatusNext)

SyncNext ==
  \/ SyncTimerFire
  \/ ReschedFire
  \/ \E u \in 1..Len(uploads) : SyncReadBlobs(u)
  \/ \E u \in 1..Len(uploads), outcome \in SyncOutcomes : SyncResponse(u, outcome)

\* the events recorded before a shutdown: one full batch and one more
MaxSynced == 11

StopNext ==
  \/ Shutdown
  \/ WatcherClosed

\* the syncer alone, fed by the watcher's recordEvent / queueEvent until flush() is
\* called, and the shutdown
SyncerNext ==
  \/ /\ shutdown.pc # "flushing"
     /\ Len(jdb.events) < MaxSynced
     /\ WatchRecord(<<"a">>, Sha256(<<"68">>))
  \/ SyncNext
  \/ StopNext

SpecSync == Init /\ [][SyncerNext]_vars

\* the path of the next settled change: two files that change in turn
NthPath == IF Len(jdb.events) % 2 = 0 THEN <<"a">> ELSE <<"b">>

\* the syncer fed with events of two paths in turn, and the shutdown
OrderNext ==
  \/ /\ shutdown.pc # "flushing"
     /\ Len(jdb.events) < MaxSynced
     /\ WatchRecord(NthPath, Sha256(<<"68">>))
  \/ SyncNext
  \/ StopNext

SpecOrder == Init /\ [][OrderNext]_vars

\* timers fire, requests are answered, watcher.close() completes
FairSync == Init /\ [][SyncerNext]_vars /\ WF_vars(SyncNext) /\ WF_vars(WatcherClosed)

\* the watcher and the syncer, with objects the syncer may fail to read
BlobsNext ==
  \/ FsNext({<<"a">>}, {<<"68">>, <<"77">>})
  \/ TimerFire
  \/ RunNext
  \/ SyncNext
  \/ \E u \in 1..Len(uploads) :
       \E denied \in SUBSET UniqueHashes(uploads[u].batch) : SyncReadBlobsDenied(u, denied)

SpecBlobs == Init /\ [][BlobsNext]_vars

\* the syncer without a shutdown
TimersNext ==
  \/ WatchRecord(<<"a">>, Sha256(<<"68">>))
  \/ SyncNext

FairTimers == Init /\ [][TimersNext]_vars /\ WF_vars(SyncNext)

\* a mutant of the shutdown handler: it returns without process.exit(0)
ProcessAliveAlways == TRUE

\* the shutdown handler has not reached process.exit(0), which follows the return of
\* sentinel.stop() with no suspension point between them
ProcessAlive == shutdown.pc # "exited"

\* the whole daemon when the server sends no command: the watcher on one text file, the
\* syncer, the poll loop and the shutdown; nothing runs once the process has exited
LocalNext ==
  \/ shutdown.pc = "running" /\ FsNext({<<"a">>}, {<<"68">>, <<"77">>})
  \/ TimerFire
  \/ ProcessAlive /\ RunNext
  \/ SyncNext
  \/ PollerStart
  \/ PollTick
  \/ ProcessAlive /\ \E outcome \in PollFailures : PollNoCommand(outcome)
  \/ StopNext

SpecLocal == Init /\ [][LocalNext]_vars

\* restoreFile alone
RestoreNext ==
  \/ \E i \in 1..Len(execs) : ExecRestoreRead(i)
  \/ \E i \in 1..Len(execs) : ExecRestoreOpen(i)
  \/ \E i \in 1..Len(execs) : ExecRestoreFail(i)
  \/ \E i \in 1..Len(execs) : ExecRestoreWrite(i)

\* restoreFile called directly while the watcher fills the blob store, and the process
\* ending at any point
RestorerNext ==
  \/ FsNext({<<"a">>}, {<<"68">>, <<"77">>})
  \/ TimerFire
  \/ RunNext
  \/ \E hash \in CmdHashes, targetPath \in CmdPaths : RestoreCall(hash, targetPath)
  \/ RestoreNext
  \/ Restart

SpecRestore == Init /\ [][RestorerNext]_vars

\* the revert command of the end-to-end scenario: a.txt back to "hello"
RevertHello == CHOOSE c \in PollCommands : c.id = 1

\* the end-to-end scenario: a.txt is created with "hello" and modified to "world" before
\* the debounce timer fires, the watcher settles, and once an event is journaled the
\* remote hands out the same revert command twice, the second after the first has ended
ScenarioNext ==
  \/ fsOps = 0 /\ AbsOf(<<"a">>) \notin DOMAIN files /\ FsWrite(<<"a">>, <<"68">>)
  \/ fsOps = 1 /\ debounceTimer /\ FsWrite(<<"a">>, <<"77">>)
  \/ fsOps = 2 /\ TimerFire
  \/ RunNext
  \/ PollerStart
  \/ PollTick
  \/ Len(jfile.events) > 0 /\ execs = <<>> /\ PollCommand(RevertHello)
  \/ \E i \in 1..Len(execs) : ExecExists(i)
  \/ \E i \in 1..Len(execs), outcome \in FetchOutcomes : ExecFetch(i, outcome)
  \/ \E i \in 1..Len(execs) : ExecFetchOpen(i)
  \/ \E i \in 1..Len(execs) : ExecFetchWrite(i)
  \/ \E i \in 1..Len(execs) : ExecCurHash(i)
  \/ \E i \in 1..Len(execs) : ExecRestoreRead(i)
  \/ \E i \in 1..Len(execs) : ExecRestoreOpen(i)
  \/ \E i \in 1..Len(execs) : ExecRestoreWrite(i)

SpecScenario == Init /\ [][ScenarioNext]_vars

\* the watcher on one text file, with a history.json that may fail to be written
DiskNext ==
  \/ FsNext({<<"a">>}, {<<"68">>, <<"77">>})
  \/ TimerFire
  \/ RunNext
  \/ \E i \in 1..Len(runs) : RunRecordFail(i)

SpecDisk == Init /\ [][DiskNext]_vars

\* the journal alone, written at successive clock readings, restarted, and queried
QueryNext ==
  \/ \E rel \in WatchedRel, now \in 1..MaxClock :
       JournalRecordEventAt(rel, Sha256(<<"68">>), now)
  \/ JournalRestart
  \/ \E k \in 1..Len(jdb.sessions), path \in WatchedRel : JournalQuery(jdb.sessions[k].id, path)

SpecQuery == Init /\ [][QueryNext]_vars

JournalNext ==
  \/ \E rel \in WatchedRel, h \in CmdHashes : JournalRecordEvent(rel, h)
  \/ JournalRestart

SpecJournal == Init /\ [][JournalNext]_vars

(***************************************************************************)
(* Properties.                                                             *)
(***************************************************************************)
Exists(rel) == AbsOf(rel) \in DOMAIN files

\* C1: no restore and no FILE_REVERT ever creates or modifies a file outside the
\* project root (the claim as stated; the prefix test of restoreFile lets /pe/a through)
C1_NoWriteOutsideRoot == \A f \in DOMAIN files : InsideRoot(f)

\* C2: store(x) returns the same hash each time, and a store(x) called after an earlier
\* store(x) has returned never opens the object for writing
C2_StoreIdempotent ==
  /\ \A s1, s2 \in hist.stored : s1.text = s2.text => s1.hash = s2.hash
  /\ \A i \in 1..Len(runs) : runs[i].again => runs[i].pc \notin {"open", "write"}
  /\ \A s \in hist.stored : s.hash \in DOMAIN blobs

\* C2's case: a second store of a content has returned
C2_Witness == \E k \in 1..Len(hist.recs) : hist.recs[k].again

\* C3: restoring, to a path inside the project root, the hash the watcher got from
\* storing a file's content leaves the target with exactly that content (the claim as
\* stated; a file that is not valid UTF-8 comes back changed)
C3_RoundTrip ==
  \A r \in hist.restored, s \in hist.stored :
    (r.hash = s.hash /\ InsideRoot(r.path)) => r.bytes = s.bytes

NoBlobWriteInProgress ==
  /\ \A i \in 1..Len(runs) : runs[i].pc # "write"
  /\ \A i \in 1..Len(execs) : execs[i].pc # "fwrite"

\* C4: every object present in the blob store under hash h decompresses to content
\* whose hash is h (the claim as stated, and only where no write of an object is in
\* progress)
C4_BlobIntegrity ==
  NoBlobWriteInProgress =>
    \A h \in DOMAIN blobs : CanGunzip(blobs[h]) /\ Sha256(Gunzip(blobs[h])) = h

\* C5: once an object exists at a hash, no later write replaces or truncates it (the
\* claim as stated; store and fetchBlobFromCloud probe, then open with truncation)
C5_NoOverwrite == hist.clobbered = {}

\* C6: the ids of the recorded events are strictly increasing, across restarts
C6_IdsIncrease ==
  \A i, j \in 1..Len(jfile.events) : i < j => jfile.events[i].id < jfile.events[j].id

\* C6's case: events recorded before and after a restart
C6_Witness ==
  /\ restarts >= 2
  /\ \E i, j \in 1..Len(jfile.events) :
       i < j /\ jfile.events[i].sessionId # jfile.events[j].sessionId

\* C7: every step of the journal (createSession at a restart, recordEvent) adds exactly
\* one record and leaves every session and event recorded before as it was
C7_AppendOnly ==
  [][/\ IsPrefix(jfile.sessions, jfile'.sessions)
     /\ IsPrefix(jfile.events, jfile'.events)
     /\ Len(jfile'.sessions) + Len(jfile'.events) = Len(jfile.sessions) + Len(jfile.events) + 1
     /\ (Len(jfile'.sessions) > Len(jfile.sessions)) = (restarts' # restarts)]_vars

\* C7's case: sessions and events appended over a restart
C7_Witness == Len(jfile.sessions) >= 2 /\ Len(jfile.events) >= 2 /\ jdb = jfile

\* the journal has an event of the path for content read at version v or later
Journaled(rel, v) ==
  \E k \in 1..Len(hist.recs) :
    /\ hist.recs[k].path = rel
    /\ hist.recs[k].ver >= v
    /\ hist.recs[k].hash = Sha256(Utf8Encode(Utf8Decode(hist.recs[k].raw)))
    /\ \E n \in 1..Len(jfile.events) :
         jfile.events[n].filePath = rel /\ jfile.events[n].hash = hist.recs[k].hash

\* C8: an add or modify event of a watched file (its v-th mutation) is eventually
\* followed by a journal event of that path with the hash of content read after it,
\* unless the file is gone
C8_EventuallyJournaled ==
  \A rel \in WatchedRel, v \in 1..MaxFsOps :
    (hist.ver[rel] = v /\ Exists(rel)) ~> (Journaled(rel, v) \/ ~Exists(rel))

\* C8's case: a file was changed and the change is in the journal
C8_Witness == \E rel \in WatchedRel : hist.ver[rel] >= 1 /\ Journaled(rel, hist.ver[rel])

WindowDone(w) == w <= hist.windows /\ \A i \in 1..Len(runs) : runs[i].win # w

RecsOf(w, rel) ==
  {k \in 1..Len(hist.recs) : hist.recs[k].win = w /\ hist.recs[k].path = rel}

\* C9 as stated: a window that closes on add/modify events of a path (whose file could
\* then be read) yields exactly one journal event for it, with the hash of the content
\* present when the window closed
C9_Original ==
  \A c \in hist.closed :
    (/\ c.type # "unlink"
     /\ WindowDone(c.win)
     /\ [win |-> c.win, path |-> c.path] \notin hist.unreadable) =>
      /\ Cardinality(RecsOf(c.win, c.path)) = 1
      /\ \A k \in RecsOf(c.win, c.path) : hist.recs[k].hash = hist.recs[k].close.hash

\* C9 as amended: at most one journal event per path and window, exactly one when the
\* file could be read; its hash is that of the content read, which is the content at
\* the close of the window or a later one, never one overwritten before the close
C9_Coalesced ==
  \A c \in hist.closed :
    c.type # "unlink" =>
      /\ Cardinality(RecsOf(c.win, c.path)) <= 1
      /\ WindowDone(c.win) =>
           (Cardinality(RecsOf(c.win, c.path)) = 1)
             = ([win |-> c.win, path |-> c.path] \notin hist.unreadable)
      /\ \A k \in RecsOf(c.win, c.path) :
           LET r == hist.recs[k] IN
           /\ r.ver >= r.close.ver
           /\ r.hash = Sha256(Utf8Encode(Utf8Decode(r.raw)))
           /\ r.ver = r.close.ver => r.hash = r.close.hash

\* C9's case: a window that closed after two mutations of a path, and its one event
C9_Witness ==
  \E k \in 1..Len(hist.recs) :
    /\ hist.recs[k].win = 1
    /\ hist.recs[k].close.ver >= 2
    /\ WindowDone(1)
    /\ RecsOf(1, hist.recs[k].path) = {k}

\* C10 as stated: a FILE_REVERT whose target already has the blobHash (and is not
\* modified meanwhile) is reported COMPLETED, without the Restorer and without a write
C10_Original ==
  \A d \in hist.done : d.same0 => (d.status = "COMPLETED" /\ ~d.restorer /\ ~d.wrote)

\* C10 as amended: when the comparison is reached and finds the hashes equal, COMPLETED
\* is reported without the Restorer and without a write to the target; when the blob is
\* absent and its fetch fails, FAILED is reported, also without a write to the target
C10_NoOpRevert ==
  \A d \in hist.done :
    /\ d.cmp = "same" => (d.status = "COMPLETED" /\ ~d.restorer /\ ~d.wrote)
    /\ d.cmp = "none" => (d.status = "FAILED" /\ ~d.restorer /\ ~d.wrote)

\* C10's case: a no-op revert, after a fetch of the blob
C10_Witness == \E d \in hist.done : d.cmp = "same" /\ d.fetched /\ d.status = "COMPLETED"

\* the ids of the commands the remote may hand out
CmdIds == {c.id : c \in PollCommands}

ReportsOf(id) == {k \in 1..Len(reports) : reports[k].id = id}

ReceiptsOf(id) ==
  {k \in 1..Len(poller.responses) :
     poller.responses[k].kind = "command" /\ poller.responses[k].id = id}

\* C11: for every command id at most one terminal status report is sent and the command
\* is executed at most once, whatever the polls return (the claim as stated; the poller
\* keeps no record of the ids it has received)
C11_AtMostOnce ==
  \A id \in CmdIds : Cardinality(ReportsOf(id)) <= 1 /\ Cardinality(ReceiptsOf(id)) <= 1

\* C12: every command returned by a poll eventually has a terminal status reported back
\* to the remote owner, i.e. a status POST for it is accepted (the claim as stated; a
\* status POST that fails is logged and never repeated)
C12_EventuallyReported ==
  \A id \in CmdIds :
    (ReceiptsOf(id) # {}) ~> (\E k \in ReportsOf(id) : reports[k].response = "ok")

\* C13: an execution that throws is reported FAILED with the error's message, and no
\* COMPLETED report is sent for it
C13_ThrowsReportFailed ==
  \A d \in hist.done :
    d.threw # Null =>
      /\ \E k \in 1..Len(reports) :
           /\ reports[k].run = d.run
           /\ reports[k].status = "FAILED"
           /\ reports[k].errorMessage = d.threw
      /\ \A k \in 1..Len(reports) : reports[k].run = d.run => reports[k].status # "COMPLETED"

\* C13's case: a throw of restoreFile and a throw of executeCommand itself were reported
C13_Witness ==
  /\ \E d \in hist.done : d.threw = <<"Path traversal detected">>
  /\ \E d \in hist.done : d.threw = <<"Unknown command type">>

\* two polls in a row were answered 401 or 403
TwoAuthRejections ==
  \E k \in 1..(Len(poller.responses) - 1) :
    poller.responses[k].kind = "auth" /\ poller.responses[k + 1].kind = "auth"

\* C14: the poll loop, once started, is disabled only after two consecutive auth
\* rejections (the claim as stated; poll() calls stop() on the first one)
C14_StopsOnSecondRejection ==
  (poller.started /\ apiKey # Null /\ ~poller.pollInterval) => TwoAuthRejections

RECURSIVE BeingRead(_)
\* the events of the batches taken whose POST has not been sent yet
BeingRead(ups) ==
  IF ups = <<>> THEN 0
  ELSE (IF Head(ups).pc = "read" THEN Len(Head(ups).batch) ELSE 0) + BeingRead(Tail(ups))

\* the events handed to queueEvent and kept (none is, without an API key)
Enqueued == IF apiKey = Null THEN 0 ELSE Len(jfile.events)

\* C15: whatever the uploads' outcomes, every queued event is taken from the queue once
\* and sent at most once (a failed batch is not put back), every syncBatch call that
\* takes a batch shrinks the queue, and flush() terminates
C15_FailedBatchDropped ==
  /\ [](hist.posted + BeingRead(uploads) + Len(syncQueue) = Enqueued)
  /\ [][BeingRead(uploads') > BeingRead(uploads) => Len(syncQueue') < Len(syncQueue)]_vars
  /\ (shutdown.pc = "flushing") ~> (shutdown.pc = "exited")

\* C15's case: flush() has returned after two batches whose uploads both failed
C15_Witness ==
  /\ shutdown.pc = "exited"
  /\ hist.flushed.batches = 2
  /\ hist.flushed.failed = 2
  /\ syncQueue = <<>>

C17_FlushAggregates ==
  (shutdown.pc = "exited" /\ apiKey # Null) =>
    /\ syncQueue = <<>>
    /\ shutdown.result = [success |-> hist.flushed.allOk, synced |-> hist.flushed.synced,
                          skipped |-> hist.flushed.skipped]

\* C17's case: flush() has returned after a batch that was stored and one that failed
C17_Witness ==
  /\ shutdown.pc = "exited"
  /\ hist.flushed.batches = 2
  /\ hist.flushed.synced = 10
  /\ hist.flushed.failed = 1

\* C18: when the shutdown handler exits, no event handed to the syncer is still queued
\* and no upload is still in flight: every one has been attempted and answered
C18_NothingPendingAtExit ==
  (shutdown.pc = "exited" /\ apiKey # Null) => (syncQueue = <<>> /\ uploads = <<>>)

\* C19: with no API key nothing is sent: queueEvent keeps nothing and arms no timer, the
\* poller arms no interval and sends no poll, and no upload is started, by flush() either
C19_NoRequestWithoutKey ==
  apiKey = Null =>
    /\ hist.http = {}
    /\ hist.posted = 0
    /\ syncQueue = <<>>
    /\ ~syncTimer
    /\ uploads = <<>>
    /\ resched = 0
    /\ ~poller.pollInterval
    /\ poller.flights = 0

\* C19's case: without an API key the poller was started, an event was journaled and
\* handed to queueEvent, and the daemon was shut down
C19_Witness ==
  /\ apiKey = Null
  /\ poller.started
  /\ hist.recs # <<>>
  /\ shutdown.pc = "exited"

\* a step of the cloud side: a request is sent or answered, or a sync timer fires
CloudStep ==
  \/ uploads' # uploads
  \/ resched' # resched
  \/ poller'.flights # poller.flights
  \/ hist'.http # hist.http

\* the journal holds exactly what the watcher read and stored, in that order, and the
\* blob store holds an object for each
JournalIsWhatWasRead ==
  /\ Len(jfile.events) = Len(hist.recs)
  /\ \A k \in 1..Len(hist.recs) :
       /\ jfile.events[k].filePath = hist.recs[k].path
       /\ jfile.events[k].hash = hist.recs[k].hash
       /\ hist.recs[k].hash \in DOMAIN blobs

\* C20: with no command, what is journaled and stored does not depend on the API key
\* or on the answers of the server: the cloud side never changes the files, the blob
\* store, the journal or the watcher's pending work, the journal is what the watcher
\* read, and the watcher's pending work can always proceed while the daemon runs
C20_LocalRecordIndependent ==
  /\ [][CloudStep => UNCHANGED <<files, blobs, journalVars, pendingChanges, runs>>]_vars
  /\ []JournalIsWhatWasRead
  /\ [](shutdown.pc = "running" =>
         /\ debounceTimer => ENABLED TimerFire
         /\ runs # <<>> => ENABLED RunNext)

\* C20's case: an upload has failed, the poll loop was stopped by the server, and the
\* watcher has journaled a second event that is queued for the next upload
C20_Witness ==
  /\ hist.uploadFailed
  /\ poller.started /\ ~poller.isRunning
  /\ hist.posted = 1
  /\ Len(jfile.events) = 2
  /\ Len(syncQueue) = 1
  /\ shutdown.pc = "running"

\* the execution at position i of execs ends in this step with the record d
Ends(i, d) ==
  /\ execs' = RemoveAt(execs, i)
  /\ d \in hist'.done
  /\ d.run = execs[i].run /\ d.id = execs[i].id

\* the step leaves every file and every directory as it was
LeavesTreeAlone == files' = files /\ hist'.mkdirs = hist.mkdirs

\* the restoreFile call at position i of execs is at its fs.access and its step is taken
AtAccess(i) == execs[i].pc = "raccess" /\ ExecRestoreRead(i)

\* C26: restoreFile with a hash that has no stored object rejects with "Blob not found"
\* and changes no file and makes no directory
C26_BlobNotFound ==
  [][\A i \in 1..Len(execs) :
       (AtAccess(i) /\ execs[i].blobHash \notin DOMAIN blobs) =>
         /\ \E d \in hist'.done :
              Ends(i, d) /\ d.status = "FAILED" /\ d.threw = <<"Blob not found">> /\ ~d.wrote
         /\ LeavesTreeAlone]_vars

\* C26's case: a direct call of restoreFile has rejected with "Blob not found"
C26_Witness ==
  \E d \in hist.done : d.id = DirectCall /\ d.threw = <<"Blob not found">>

\* C27: restoreFile with a stored object that cannot be decompressed rejects with
\* "Failed to decompress blob" and changes no file and makes no directory
C27_CorruptBlob ==
  [][\A i \in 1..Len(execs) :
       (AtAccess(i) /\ execs[i].blobHash \in DOMAIN blobs
                    /\ ~CanGunzip(blobs[execs[i].blobHash])) =>
         /\ \E d \in hist'.done :
              Ends(i, d) /\ d.status = "FAILED" /\ d.threw = <<"Failed to decompress blob">>
                         /\ ~d.wrote
         /\ LeavesTreeAlone]_vars

\* C27's case: a direct call of restoreFile has rejected with "Failed to decompress blob"
C27_Witness ==
  \E d \in hist.done : d.id = DirectCall /\ d.threw = <<"Failed to decompress blob">>

\* C28: a file is empty, neither what it held nor what is restored, only while a
\* restoreFile call is writing it, never once the process has ended during the write
C28_OldOrNewAfterCrash ==
  \A f \in DOMAIN files :
    files[f] = <<>> =>
      \E i \in 1..Len(execs) :
        execs[i].pc = "rwrite" /\ PathResolve(ProjectRoot, execs[i].filePath) = f

\* the execution at position i of execs is at position j of execs' after the step
SameRun(i, j) == j \in 1..Len(execs') /\ execs'[j].run = execs[i].run /\ execs'[j].id = execs[i].id

\* the execution has called restoreFile and the call has not returned
InRestorer(e) == e.pc \in {"raccess", "ropen", "rwrite"}

\* C22: a fetch is issued exactly when blobStore.exists finds no object for the hash, and
\* restoreFile is called only once the hash has an object in the local store, which an
\* execution that fetched has written in full before
C22_FetchBeforeRestore ==
  /\ [][\A i \in 1..Len(execs) : \A j \in 1..Len(execs') :
         (execs[i].pc = "exists" /\ SameRun(i, j) /\ execs'[j].pc # "exists") =>
           IF execs[i].blobHash \in DOMAIN blobs
           THEN execs'[j].pc = "curhash" /\ hist'.http = hist.http
           ELSE execs'[j].pc = "fetch" /\ "blob" \in hist'.http]_vars
  /\ [][\A i \in 1..Len(execs) : \A j \in 1..Len(execs') :
         (SameRun(i, j) /\ execs'[j].pc = "curhash" /\ execs[i].pc # "curhash") =>
           /\ execs[i].blobHash \in DOMAIN blobs'
           /\ execs'[j].fetched =>
                execs[i].pc = "fwrite" /\ blobs'[execs[i].blobHash] = Gzip(execs[i].blobHash[2])]_vars
  /\ [](\A i \in 1..Len(execs) : InRestorer(execs[i]) => execs[i].blobHash \in DOMAIN blobs)
  /\ [](\A d \in hist.done : d.restorer /\ ~d.fetched => d.cmp # "none")

\* C22's case: one execution has fetched the blob and restored the file from it, and
\* another has found the blob in the local store and called restoreFile without a fetch
C22_Witness ==
  /\ \E d \in hist.done : d.fetched /\ d.wrote /\ d.status = "COMPLETED"
  /\ \E d \in hist.done : ~d.fetched /\ d.restorer

\* the executions of the scenario's command that have ended with COMPLETED
Completed == {d \in hist.done : d.status = "COMPLETED"}

\* C21 as stated: in the scenario every revert command is reported COMPLETED, the first
\* having restored a.txt to "hello" and the second having changed nothing
C21_Original ==
  /\ Len(jfile.events) > 0 => jfile.events[1].hash = Sha256(<<"77">>)
  /\ \A d \in hist.done :
       /\ d.status = "COMPLETED"
       /\ d.run = 1 => d.wrote
       /\ d.run = 2 => ~d.wrote
  /\ (hist.done # {} /\ execs = <<>>) => files[AbsOf(<<"a">>)] = <<"68">>

\* C21 as amended: in the scenario only "world" is journaled first; a revert command
\* is reported COMPLETED unless the fetch of the blob of "hello" fails, and then FAILED
\* with a.txt left alone; the first COMPLETED one has fetched the blob and restored
\* "hello", and a command after it changes nothing and is reported COMPLETED
C21_RevertIfBlobServed ==
  /\ Len(jfile.events) > 0 => jfile.events[1].hash = Sha256(<<"77">>)
  /\ \A d \in hist.done :
       /\ d.status = "COMPLETED" <=> d.threw = Null
       /\ d.threw # Null => d.threw = <<"Failed to fetch blob from cloud">> /\ ~d.wrote
       /\ (d.status = "COMPLETED" /\ d.cmp = "differs") =>
            /\ d.fetched /\ d.wrote
            /\ [hash |-> Sha256(<<"68">>), path |-> AbsOf(<<"a">>), bytes |-> <<"68">>]
                 \in hist.restored
       /\ (d.status = "COMPLETED" /\ d.cmp = "same") =>
            ~d.wrote /\ \E d0 \in Completed : d0.run < d.run /\ d0.wrote
  /\ \A d1 \in Completed : \A d2 \in hist.done :
       d1.run < d2.run => d2.status = "COMPLETED" /\ d2.cmp = "same"
  /\ execs = <<>> /\ fsOps = 2 =>
       files[AbsOf(<<"a">>)] = IF Completed # {} THEN <<"68">> ELSE <<"77">>

\* C21's case: only "world" was journaled, the first command fetched the blob of
\* "hello" and restored a.txt, and the second found a.txt at "hello"
C21_Witness ==
  /\ Len(jfile.events) > 0
  /\ jfile.events[1].hash = Sha256(<<"77">>)
  /\ \E d \in Completed : d.run = 1 /\ d.fetched /\ d.wrote
  /\ \E d \in Completed : d.run = 2 /\ d.cmp = "same" /\ ~d.wrote
  /\ files[AbsOf(<<"a">>)] = <<"68">>

\* C23: a journal write that failed in recordEvent during the settle processing has
\* been logged or has propagated out of it
C23_JournalFailureSeen == hist.jfail => hist.jlogged

\* the sequence holds each of the events of the set once and nothing else
ExactlyOnce(result, wanted) ==
  /\ \A k \in 1..Len(result) : result[k] \in wanted
  /\ \A e \in wanted : \E k \in 1..Len(result) : result[k] = e
  /\ \A k, l \in 1..Len(result) : result[k] = result[l] => k = l

\* the events of the journal the last query was made on
Asked == {hist.query.events[k] : k \in 1..Len(hist.query.events)}

\* C24: getSessionEvents returns exactly the events of the session, by ascending
\* timestamp, and getFileEvents exactly the events of the path, by descending timestamp
C24_QueriesSorted ==
  LET q == hist.query IN
  /\ ExactlyOnce(q.sessionEvents, {e \in Asked : e.sessionId = q.sessionId})
  /\ \A k, l \in 1..Len(q.sessionEvents) :
       k < l => q.sessionEvents[k].timestamp <= q.sessionEvents[l].timestamp
  /\ ExactlyOnce(q.fileEvents, {e \in Asked : e.filePath = q.filePath})
  /\ \A k, l \in 1..Len(q.fileEvents) :
       k < l => q.fileEvents[k].timestamp >= q.fileEvents[l].timestamp

\* C24's case: the queries were made on a journal of three events with two timestamps,
\* two sessions and two paths, and both returned several events of different timestamps
C24_Witness ==
  LET q == hist.query IN
  /\ Len(q.events) = 3
  /\ Len(q.sessionEvents) = 2 /\ q.sessionEvents[1].timestamp < q.sessionEvents[2].timestamp
  /\ Len(q.fileEvents) = 2 /\ q.fileEvents[1].timestamp > q.fileEvents[2].timestamp

\* C25: getLatestFileEvent returns the event of the path with the greatest id, also
\* when events of the path have the same timestamp, and null when the path has none
C25_LatestIsGreatestId ==
  LET q == hist.query
      mine == {e \in Asked : e.filePath = q.filePath}
  IN IF mine = {} THEN q.latest = <<>>
     ELSE /\ Len(q.latest) = 1
          /\ q.latest[1] \in mine
          /\ \A e \in mine : e.id <= q.latest[1].id

\* while an upload is in flight the watcher's events and queueEvent are accepted, and an
\* entry enqueued then goes to the end of the queue, with the sync timer armed, and not
\* into a batch in flight
AcceptedDuringUpload ==
  /\ [](uploads # <<>> =>
         /\ ENABLED FsWrite(<<"a">>, <<"68">>)
         /\ Len(jdb.events) < MaxRecorded => ENABLED WatchRecord(<<"a">>, Sha256(<<"68">>)))
  /\ [][(uploads # <<>> /\ apiKey # Null /\ jdb' # jdb) =>
          /\ Len(syncQueue') = Len(syncQueue) + 1
          /\ SubSeq(syncQueue', 1, Len(syncQueue)) = syncQueue
          /\ uploads' = uploads
          /\ syncTimer']_vars

\* the entries syncBatch has taken out of the queue into an upload attempt so far
Attempted == Enqueued - Len(syncQueue)

C30_SettlesAfterOwnWindow ==
  \A r \in WatchedRel : hist.clock.lag[r] \in {NoLag, debounceMs}

\* the settle processing of window w is at the path: its readFile or store() is pending
Processing(w, rel) ==
  \E i \in 1..Len(runs) : runs[i].win = w /\ Head(runs[i].todo).path = rel

\* C31: a path whose last event in a debounce window is a deletion is not read, stored,
\* journaled or enqueued by that window's settle processing
C31_DeletionSkipped ==
  \A c \in hist.closed :
    c.type = "unlink" =>
      /\ ~Processing(c.win, c.path)
      /\ \A k \in 1..Len(hist.recs) :
           ~(hist.recs[k].win = c.win /\ hist.recs[k].path = c.path)
      /\ [win |-> c.win, path |-> c.path] \notin hist.unreadable

\* C31's case: the first window saw a path added and then deleted, and its settle
\* processing is over
C31_Witness ==
  \E c \in hist.closed :
    /\ c.type = "unlink" /\ c.win = 1
    /\ hist.ver[c.path] = 2
    /\ WindowDone(1)

\* the readFile of run i fails in this step: the file is gone, or cannot be read
ReadFails(i) ==
  /\ runs[i].pc = "read"
  /\ \/ RunReadDenied(i)
     \/ RunRead(i) /\ AbsOf(Head(runs[i].todo).path) \notin DOMAIN files

\* the items after the first of the run's list that are not deletions
LaterItems(i) == {k \in 2..Len(runs[i].todo) : runs[i].todo[k].type # "unlink"}

\* C32: when readFile fails during settle processing the path gets no blob, no journal
\* event and no sync entry, the run goes on with the next path of its batch that is not
\* a deletion, and handleChange still takes events
C32_UnreadableSkipped ==
  /\ [][\A i \in 1..Len(runs) :
         ReadFails(i) =>
           /\ UNCHANGED <<blobs, journalVars, syncVars>>
           /\ LaterItems(i) # {} =>
                /\ Len(runs') = Len(runs)
                /\ runs'[i].win = runs[i].win
                /\ runs'[i].pc = "read"
                /\ \E k \in LaterItems(i) :
                     /\ \A j \in LaterItems(i) : k <= j
                     /\ Head(runs'[i].todo) = runs[i].todo[k]]_vars
  /\ []((hist.unreadable # {} /\ fsOps < MaxFsOps) => ENABLED FsWrite(<<"a">>, <<"68">>))

\* C32's case: in one window a path could not be read and another path of the same
\* batch has been journaled after it
C32_Witness ==
  \E u \in hist.unreadable :
    \E k \in 1..Len(hist.recs) :
      /\ hist.recs[k].win = u.win
      /\ hist.recs[k].path # u.path
      /\ \E c \in hist.closed : c.win = u.win /\ c.path = u.path /\ c.type # "unlink"

\* every event of the journal, in memory and in history.json
JournalEvents ==
  {jdb.events[k] : k \in 1..Len(jdb.events)} \cup {jfile.events[k] : k \in 1..Len(jfile.events)}

\* C33: every event in the journal references a hash that has an object in the blob
\* store, and no step removes an object
C33_JournaledBlobExists ==
  /\ [](\A e \in JournalEvents : e.hash \in DOMAIN blobs)
  /\ [][DOMAIN blobs \subseteq DOMAIN blobs']_vars

\* C33's case: settle processing wrote an object and journaled its hash, and the daemon
\* was started again since
C33_Witness ==
  /\ restarts > 0
  /\ \E e \in JournalEvents : e.hash \in DOMAIN blobs /\ CanGunzip(blobs[e.hash])

\* history.json holds an event with the entry's sessionId, filePath and hash
InJournalFile(entry) ==
  \E k \in 1..Len(jfile.events) :
    /\ jfile.events[k].sessionId = entry.sessionId
    /\ jfile.events[k].filePath = entry.filePath
    /\ jfile.events[k].hash = entry.hash

\* the entries waiting in the queue and those of the batches being uploaded
QueuedOrInFlight ==
  {syncQueue[k] : k \in 1..Len(syncQueue)} \cup
  UNION {{uploads[u].batch[k] : k \in 1..Len(uploads[u].batch)} : u \in 1..Len(uploads)}

\* C34: every entry in the sync queue or in an upload has a matching event in the
\* journal file, and the journal file never loses an event
C34_QueuedIsJournaled ==
  /\ [](\A entry \in QueuedOrInFlight : InJournalFile(entry))
  /\ [][/\ Len(jfile'.events) >= Len(jfile.events)
         /\ SubSeq(jfile'.events, 1, Len(jfile.events)) = jfile.events]_vars

\* C34's case: events have been uploaded and an entry recorded since waits in the queue
C34_Witness ==
  /\ hist.posted > 0
  /\ syncQueue # <<>>
  /\ InJournalFile(syncQueue[1])

\* the smaller of the batch size and the number of queued entries
HeadCount == IF Len(syncQueue) < BatchSize THEN Len(syncQueue) ELSE BatchSize

\* C35: a step that takes entries out of the queue starts one upload with the
\* min(10, queue length) oldest entries in enqueue order and leaves the others queued in
\* their order; the batch of an upload is what its request carries
C35_FifoBatches ==
  /\ [][Len(syncQueue') < Len(syncQueue) =>
         /\ uploads' # <<>>
         /\ uploads'[Len(uploads')].pc = "read"
         /\ uploads'[Len(uploads')].batch = SubSeq(syncQueue, 1, HeadCount)
         /\ syncQueue' = SubSeq(syncQueue, HeadCount + 1, Len(syncQueue))]_vars
  /\ [][\A u \in 1..Len(uploads) :
         (uploads[u].pc = "read" /\ SyncReadBlobs(u)) =>
           /\ uploads'[u].batch = uploads[u].batch
           /\ hist'.posted = hist.posted + Len(uploads[u].batch)]_vars

\* C35's case: a batch of ten entries of two paths is being uploaded and a later entry
\* waits in the queue
C35_Witness ==
  /\ syncQueue # <<>>
  /\ \E u \in 1..Len(uploads) :
       /\ Len(uploads[u].batch) = BatchSize
       /\ uploads[u].batch[1].filePath # uploads[u].batch[2].filePath

\* C36: the request of a batch carries every event of the batch, and its blobs map has
\* an entry, the object's content, for exactly the hashes of the batch whose object was
\* read, and for no other hash
C36_EventsAndReadableBlobs ==
  [][\A u \in 1..Len(uploads) :
       /\ (uploads[u].pc = "read" /\ SyncReadBlobs(u)) =>
            /\ uploads'[u].batch = uploads[u].batch
            /\ DOMAIN uploads'[u].blobs = UniqueHashes(uploads[u].batch) \cap DOMAIN blobs
            /\ \A h \in DOMAIN uploads'[u].blobs :
                 uploads'[u].blobs[h] = Base64Encode(blobs[h])
       /\ \A denied \in SUBSET UniqueHashes(uploads[u].batch) :
            (uploads[u].pc = "read" /\ SyncReadBlobsDenied(u, denied)) =>
              /\ uploads'[u].batch = uploads[u].batch
              /\ DOMAIN uploads'[u].blobs =
                   (UniqueHashes(uploads[u].batch) \cap DOMAIN blobs) \ denied
              /\ \A h \in DOMAIN uploads'[u].blobs :
                   uploads'[u].blobs[h] = Base64Encode(blobs[h])]_vars

\* C36's case: a request carries two events with different hashes and the object of
\* only one of them
C36_Witness ==
  \E u \in 1..Len(uploads) :
    /\ uploads[u].pc = "post"
    /\ Len(uploads[u].batch) = 2
    /\ Cardinality(UniqueHashes(uploads[u].batch)) = 2
    /\ Cardinality(DOMAIN uploads[u].blobs) = 1

\* the step is the answer of a poll with 401 or 403
AuthRejected ==
  /\ Len(poller'.responses) = Len(poller.responses) + 1
  /\ poller'.responses[Len(poller'.responses)].kind = "auth"

\* C37: only an auth rejection ends the poll loop: after any other failed poll and after
\* a failed execution the interval is still set and its next poll can fire
C37_FailuresKeepPolling ==
  /\ [][(poller.pollInterval /\ ~poller'.pollInterval) => AuthRejected]_vars
  /\ [][(poller.isRunning /\ ~poller'.isRunning) => AuthRejected]_vars
  /\ []((poller.pollInterval /\ poller.flights < MaxFlights) => ENABLED PollTick)

\* C37's case: a poll has failed without an auth rejection, a command's execution has
\* failed, and the interval can fire its next poll
C37_Witness ==
  /\ \E k \in 1..Len(poller.responses) : poller.responses[k].kind = "error"
  /\ \E d \in hist.done : d.status = "FAILED"
  /\ poller.pollInterval
  /\ ENABLED PollTick

\* C38: once Sentinel.stop() has returned no journal event is appended and no sync entry
\* is enqueued, whatever settle processing was in progress
C38_NothingAfterStop ==
  [][shutdown.pc = "exited" =>
       /\ jdb' = jdb /\ jfile' = jfile
       /\ syncQueue' = syncQueue]_vars

\* C38's case: stop() has returned while a settle-processing run was between its
\* readFile and its recordEvent
C38_Witness ==
  /\ shutdown.pc = "exited"
  /\ \E i \in 1..Len(runs) : runs[i].pc \in {"access", "open", "write"}

\* the execution at position i of execs ends in this step with a COMPLETED report
ReportsCompleted(i) ==
  /\ execs[i].id # DirectCall
  /\ execs' = RemoveAt(execs, i)
  /\ Len(reports') = Len(reports) + 1
  /\ reports'[Len(reports')].status = "COMPLETED"
  /\ reports'[Len(reports')].run = execs[i].run

C40_AtMostOneUpload ==
  /\ [](hist.posted + BeingRead(uploads) = Attempted)
  /\ [][Attempted' >= Attempted]_vars

\* C40's case: a batch taken by a timer and a batch taken by flush() are being uploaded
\* at the same time
C40_Witness ==
  /\ Len(uploads) = 2
  /\ uploads[1].by # uploads[2].by
  /\ Len(uploads[1].batch) + Len(uploads[2].batch) > 2

====
